---- MODULE Spec2Model ----
(***************************************************************************)
(* Screen Time Manager: the time-budget state machine.                     *)
(*                                                                         *)
(* Two threads run the program: the UI thread ("ui"), whose message loop   *)
(* dispatches one window message at a time (the one-second WM_TIMER of the *)
(* mini overlay, tray menu commands, the blocking screen's buttons, the    *)
(* stats dialog's reset button), and the Telegram bot thread ("bot"),      *)
(* which runs the remote commands.  The countdown and the pause state are  *)
(* process-wide atomics, the settings store is a key-value table behind a  *)
(* mutex that is taken per get_setting / set_setting call.  No lock spans  *)
(* a handler.  Every handler is therefore modelled as a sequence of steps, *)
(* one per access to shared state, with a program counter per thread.      *)
(* When overlap is FALSE a handler starts only while the other thread is   *)
(* idle (handlers run one after the other); when overlap is TRUE the two   *)
(* threads interleave step by step.                                        *)
(***************************************************************************)
EXTENDS Integers, Sequences, FiniteSets, TLC

VARIABLES
    REMAINING_SECONDS,        \* blocking.rs:47     AtomicI32
    IS_PAUSED,                \* mini_overlay.rs:28 AtomicBool
    PAUSE_START_TIMESTAMP,    \* mini_overlay.rs:29 AtomicI64
    CURRENT_PAUSE_DURATION,   \* mini_overlay.rs:30 AtomicI32
    SESSION_ACTIVE_SECONDS,   \* mini_overlay.rs:31 AtomicI32
    MINI_OVERLAY_VISIBLE,     \* mini_overlay.rs:25 AtomicBool
    miniTimer,                \* TIMER_MINI_UPDATE: "off", "armed" or "due"
    blockingVisible,          \* the blocking window is shown
    PASSCODE_ERROR,           \* blocking.rs:44     AtomicBool
    passcodeEdit,             \* the text of the blocking screen's passcode field
    db,                       \* the settings table: key -> value
    clock,                    \* GetLocalTime(): the local date and time
    pc,                       \* per thread: the step it is at
    op,                       \* per thread: the handler it runs and its inputs
    loc,                      \* per thread: the handler's local variables
    ret,                      \* per thread: the value the handler returned
    pre,                      \* per thread: the shared state when the handler began
    fx,                       \* the notifier effects of the ui handler under way
    opsLeft,                  \* commands that may still be issued
    ticksLeft,                \* seconds that may still pass
    overlap,                  \* whether handlers of the two threads may interleave
    outage,                   \* what fails on the settings store: "none", "write" or "all"
    admin_chat_id             \* telegram.rs:65    Option<i64>, fixed when the bot starts

mem == <<REMAINING_SECONDS, IS_PAUSED, PAUSE_START_TIMESTAMP,
         CURRENT_PAUSE_DURATION, SESSION_ACTIVE_SECONDS>>
win == <<MINI_OVERLAY_VISIBLE, miniTimer, blockingVisible, PASSCODE_ERROR, passcodeEdit>>
ctl == <<pc, op, loc, ret, pre, fx>>
lim == <<opsLeft, ticksLeft, overlap, outage, admin_chat_id>>
vars == <<mem, win, db, clock, ctl, lim>>

Threads == {"ui", "bot"}

Other(t) == IF t = "ui" THEN "bot" ELSE "ui"

(***************************************************************************)
(* The settings table.  A value is the text of a setting.  The decimal     *)
(* text of the integer n (what i32::to_string writes) is IntV(n), any      *)
(* text that is no number is TextV(s), a pause log (comma-separated        *)
(* "HH:MM:SS:<n>s" entries) is LogV(entries); NoneV is get_setting's None. *)
(* A key is <<name, date>>; names that are not date-scoped carry NoDate.   *)
(***************************************************************************)
NoneV == [k |-> "none", n |-> 0, s |-> "", log |-> <<>>]

IntV(n) == [k |-> "int", n |-> n, s |-> "", log |-> <<>>]

TextV(s) == [k |-> "text", n |-> 0, s |-> s, log |-> <<>>]

LogV(l) == [k |-> "log", n |-> 0, s |-> "", log |-> l]

NoDate == <<0, 0, 0>>

Key(name) == <<name, NoDate>>

DateKey(name, date) == <<name, date>>

get_setting(d, key) == IF key \in DOMAIN d THEN d[key] ELSE NoneV

set_setting(d, key, value) ==
    [x \in DOMAIN d \cup {key} |-> IF x = key THEN value ELSE d[x]]

I32Max == 2147483647

I32Min == -I32Max - 1

\* str::parse::<i32>() followed by unwrap_or(default)
parse_i32_or(v, default) ==
    IF v.k = "int" /\ v.n >= I32Min /\ v.n <= I32Max THEN v.n ELSE default

\* fault: what cannot be parsed counts as 0
parse_u32_or_zero(v, default) ==
    IF v.k = "int" /\ v.n >= 0 THEN v.n ELSE 0

\* str::parse::<u32>() followed by unwrap_or(default): a sign is no digit.
\* The numbers of this model stay below u32::MAX.
parse_u32_or(v, default) ==
    IF v.k = "int" /\ v.n >= 0 THEN v.n ELSE default

\* `x as i32` of a u32 or i64 value: the low 32 bits, two's complement
as_i32(x) ==
    IF x >= I32Min /\ x <= I32Max THEN x
    ELSE ((x - I32Min) % (65536 * 65536)) + I32Min

(***************************************************************************)
(* The clock: GetLocalTime's SYSTEMTIME.                                   *)
(***************************************************************************)
IsLeap(y) == (y % 4 = 0 /\ y % 100 # 0) \/ y % 400 = 0

DaysInMonth(y, m) ==
    IF m = 2 THEN (IF IsLeap(y) THEN 29 ELSE 28)
    ELSE IF m \in {4, 6, 9, 11} THEN 30 ELSE 31

NextDay(c) ==
    IF c.wDay < DaysInMonth(c.wYear, c.wMonth)
    THEN [c EXCEPT !.wDay = c.wDay + 1, !.wDayOfWeek = (c.wDayOfWeek + 1) % 7]
    ELSE IF c.wMonth < 12
    THEN [c EXCEPT !.wDay = 1, !.wMonth = c.wMonth + 1,
                   !.wDayOfWeek = (c.wDayOfWeek + 1) % 7]
    ELSE [c EXCEPT !.wDay = 1, !.wMonth = 1, !.wYear = c.wYear + 1,
                   !.wDayOfWeek = (c.wDayOfWeek + 1) % 7]

NextSecond(c) ==
    IF c.wSecond < 59 THEN [c EXCEPT !.wSecond = c.wSecond + 1]
    ELSE IF c.wMinute < 59 THEN [c EXCEPT !.wSecond = 0, !.wMinute = c.wMinute + 1]
    ELSE IF c.wHour < 23
    THEN [c EXCEPT !.wSecond = 0, !.wMinute = 0, !.wHour = c.wHour + 1]
    ELSE NextDay([c EXCEPT !.wSecond = 0, !.wMinute = 0, !.wHour = 0])

\* format!("{:04}-{:02}-{:02}", ...): one text per calendar date
get_today_date(c) == <<c.wYear, c.wMonth, c.wDay>>

get_current_weekday(c) == IF c.wDayOfWeek = 0 THEN 6 ELSE c.wDayOfWeek - 1

get_current_timestamp(c) ==
    LET days_since_epoch == (c.wYear - 1970) * 365 + (c.wMonth - 1) * 30 + c.wDay
    IN  days_since_epoch * 86400 + c.wHour * 3600 + c.wMinute * 60 + c.wSecond

\* format!("{:02}:{:02}:{:02}", wHour, wMinute, wSecond)
time_str(c) == <<c.wHour, c.wMinute, c.wSecond>>

(***************************************************************************)
(* database.rs: the typed accessors of the settings table.                 *)
(***************************************************************************)
WEEKDAY_KEYS ==
    <<"limit_monday", "limit_tuesday", "limit_wednesday", "limit_thursday",
      "limit_friday", "limit_saturday", "limit_sunday">>

get_passcode(d) == get_setting(d, Key("passcode"))

get_daily_limit(d, weekday) ==
    IF weekday \in 0..6
    THEN parse_u32_or(get_setting(d, Key(WEEKDAY_KEYS[weekday + 1])), 120)
    ELSE 120

\* the message falls back to format!("{} minutes remaining!", minutes)
get_warning_config(d, warning_num) ==
    LET minutes_key == IF warning_num = 1 THEN "warning1_minutes" ELSE "warning2_minutes"
        message_key == IF warning_num = 1 THEN "warning1_message" ELSE "warning2_message"
        minutes == parse_u32_or(get_setting(d, Key(minutes_key)), 5)
        stored  == get_setting(d, Key(message_key))
    IN  [minutes |-> minutes,
         message |-> IF stored = NoneV
                     THEN [k |-> "text", n |-> minutes, s |-> " minutes remaining!",
                           log |-> <<>>]
                     ELSE stored]

get_blocking_message(d) ==
    LET stored == get_setting(d, Key("blocking_message"))
    IN  IF stored = NoneV THEN TextV("Your screen time limit has been reached.")
        ELSE stored

save_remaining_time(d, c, seconds) ==
    set_setting(d, DateKey("remaining_time", get_today_date(c)), IntV(seconds))

\* Option<i32>: NoneV when nothing parseable is stored for today
load_remaining_time(d, c) ==
    LET v == get_setting(d, DateKey("remaining_time", get_today_date(c)))
    IN  IF v.k = "int" /\ v.n >= I32Min /\ v.n <= I32Max THEN v ELSE NoneV

is_pause_enabled(d) ==
    LET v == get_setting(d, Key("pause_enabled"))
    IN  IF v = NoneV THEN TRUE ELSE v = IntV(1)

get_pause_config(d) ==
    [daily_budget_minutes    |-> parse_u32_or(get_setting(d, Key("pause_daily_budget")), 45),
     max_duration_minutes    |-> parse_u32_or(get_setting(d, Key("pause_max_duration")), 20),
     cooldown_minutes        |-> parse_u32_or(get_setting(d, Key("pause_cooldown")), 15),
     min_active_time_minutes |-> parse_u32_or(get_setting(d, Key("pause_min_active_time")), 10)]

get_pause_used_today(d, c) ==
    parse_i32_or(get_setting(d, DateKey("pause_used", get_today_date(c))), 0)

save_pause_used_today(d, c, seconds) ==
    set_setting(d, DateKey("pause_used", get_today_date(c)), IntV(seconds))

\* parse::<i64>(): every integer of the model fits
get_last_pause_end(d) ==
    LET v == get_setting(d, Key("pause_last_end_timestamp"))
    IN  IF v.k = "int" THEN v.n ELSE 0

save_last_pause_end(d, timestamp) ==
    set_setting(d, Key("pause_last_end_timestamp"), IntV(timestamp))

get_session_active_time(d, c) ==
    parse_i32_or(get_setting(d, DateKey("session_active", get_today_date(c))), 0)

save_session_active_time(d, c, seconds) ==
    set_setting(d, DateKey("session_active", get_today_date(c)), IntV(seconds))

\* log_pause_event, first half: get_setting(&key).unwrap_or_default()
pause_log_existing(d, c) ==
    LET v == get_setting(d, DateKey("pause_log", get_today_date(c)))
    IN  IF v.k = "log" THEN v.log ELSE <<>>

\* log_pause_event, second half: the entry "<HH:MM:SS>:<n>s" is appended
\* after a comma, or stored alone when the existing text is empty
pause_log_updated(existing, c, duration_seconds) ==
    LET new_entry == [time |-> time_str(c), duration |-> duration_seconds]
    IN  IF existing = <<>> THEN <<new_entry>> ELSE Append(existing, new_entry)

get_pause_log_today(d, c) == pause_log_existing(d, c)

(***************************************************************************)
(* mini_overlay.rs: the pause budget.                                      *)
(***************************************************************************)
Min(a, b) == IF a <= b THEN a ELSE b

Max(a, b) == IF a >= b THEN a ELSE b

get_remaining_pause_budget(d, c) ==
    LET config == get_pause_config(d)
        budget_seconds == as_i32(config.daily_budget_minutes * 60)
        used == get_pause_used_today(d, c)
    IN  Max(budget_seconds - used, 0)

\* fault: the budget that is left does not cap a pause
max_single_only(d, c) ==
    as_i32(get_pause_config(d).max_duration_minutes * 60)

get_max_pause_duration(d, c) ==
    LET config == get_pause_config(d)
        max_single == as_i32(config.max_duration_minutes * 60)
        remaining_budget == get_remaining_pause_budget(d, c)
    IN  Min(max_single, remaining_budget)

(***************************************************************************)
(* database.rs:132-152  The settings store may fail.  get_setting returns  *)
(* None when the connection cannot be locked or the query fails, and       *)
(* set_setting then returns false, which no caller looks at.  While writes *)
(* fail (outage "write") the table keeps what it held and reads still      *)
(* succeed; while the store cannot be reached (outage "all") every read    *)
(* finds nothing, as in an empty table.                                    *)
(***************************************************************************)
EmptyDb == [x \in {} |-> NoneV]

\* the table as get_setting sees it
Store == IF outage = "all" THEN EmptyDb ELSE db

\* the table after a set_setting that would leave d
Written(d) == IF outage = "none" THEN d ELSE db

(***************************************************************************)
(* Handlers.  A thread is "idle", at a step of a handler, or at "done",    *)
(* where the handler has returned and its result is still to be seen.      *)
(***************************************************************************)
NoOp == [name |-> "none", minutes |-> 0, entered |-> "", sender |-> 0]

NoConfig == [daily_budget_minutes |-> 0, max_duration_minutes |-> 0,
             cooldown_minutes |-> 0, min_active_time_minutes |-> 0]

NoLoc == [duration |-> 0, max_duration |-> 0, current |-> 0, pause_duration |-> 0,
          total_used |-> 0, existing |-> <<>>, config |-> NoConfig]

\* Result<_, PauseBlockedReason> of can_pause / toggle_pause, and the text
\* a command answers with
NoRet == [tag |-> "none", val |-> FALSE, reason |-> "", seconds_remaining |-> 0,
          reply |-> ""]

Ok(val) == [NoRet EXCEPT !.tag = "Ok", !.val = val]

Err(reason, seconds) ==
    [NoRet EXCEPT !.tag = "Err", !.reason = reason, !.seconds_remaining = seconds]

NoPre == [REMAINING_SECONDS |-> 0, IS_PAUSED |-> FALSE, PAUSE_START_TIMESTAMP |-> 0,
          CURRENT_PAUSE_DURATION |-> 0, SESSION_ACTIVE_SECONDS |-> 0,
          MINI_OVERLAY_VISIBLE |-> FALSE, miniTimer |-> "off",
          blockingVisible |-> FALSE, PASSCODE_ERROR |-> FALSE, passcodeEdit |-> "",
          db |-> EmptyDb, now |-> 0, today |-> NoDate]

Snapshot ==
    [REMAINING_SECONDS |-> REMAINING_SECONDS, IS_PAUSED |-> IS_PAUSED,
     PAUSE_START_TIMESTAMP |-> PAUSE_START_TIMESTAMP,
     CURRENT_PAUSE_DURATION |-> CURRENT_PAUSE_DURATION,
     SESSION_ACTIVE_SECONDS |-> SESSION_ACTIVE_SECONDS,
     MINI_OVERLAY_VISIBLE |-> MINI_OVERLAY_VISIBLE, miniTimer |-> miniTimer,
     blockingVisible |-> blockingVisible, PASSCODE_ERROR |-> PASSCODE_ERROR,
     passcodeEdit |-> passcodeEdit,
     db |-> db, now |-> get_current_timestamp(clock), today |-> get_today_date(clock)]

\* a notifier command: showWarning(text, secs), showBlocking(text), hideBlocking
Effect(e, text, secs) == [e |-> e, text |-> text, secs |-> secs]

Goto(t, label) == pc' = [pc EXCEPT ![t] = label]

\* a handler of thread t begins: handlers of one thread run one at a time
Begin(t, o, first) ==
    /\ pc[t] = "idle"
    /\ overlap \/ pc[Other(t)] = "idle"
    /\ pc' = [pc EXCEPT ![t] = first]
    /\ op' = [op EXCEPT ![t] = o]
    /\ pre' = [pre EXCEPT ![t] = Snapshot]

\* a command of the user or of the remote admin begins
BeginCommand(t, o, first) ==
    /\ opsLeft > 0
    /\ opsLeft' = opsLeft - 1
    /\ Begin(t, o, first)

Finish(t, r) ==
    /\ pc' = [pc EXCEPT ![t] = "done"]
    /\ ret' = [ret EXCEPT ![t] = r]

\* the handler's caller takes the result; the thread is free again
Return(t) ==
    /\ pc[t] = "done"
    /\ pc' = [pc EXCEPT ![t] = "idle"]
    /\ op' = [op EXCEPT ![t] = NoOp]
    /\ loc' = [loc EXCEPT ![t] = NoLoc]
    /\ ret' = [ret EXCEPT ![t] = NoRet]
    /\ pre' = [pre EXCEPT ![t] = NoPre]
    /\ fx' = IF t = "ui" THEN <<>> ELSE fx
    /\ UNCHANGED <<mem, win, db, clock, lim>>

(***************************************************************************)
(* blocking.rs / mini_overlay.rs: showing and hiding the windows.  These   *)
(* touch only state of the UI thread.                                      *)
(***************************************************************************)
\* show_mini_overlay: the flag is set and the one-second timer (re)started
show_mini_overlay ==
    /\ MINI_OVERLAY_VISIBLE' = TRUE
    /\ miniTimer' = "armed"

\* hide_mini_overlay: the flag is cleared and the timer killed
hide_mini_overlay ==
    /\ MINI_OVERLAY_VISIBLE' = FALSE
    /\ miniTimer' = "off"

\* show_blocking_overlay(text) = show_blocking_overlay_with_time(text, -1):
\* with remaining_seconds < 0 the countdown is not stored to
show_blocking_overlay(text) ==
    /\ hide_mini_overlay
    /\ PASSCODE_ERROR' = FALSE
    /\ passcodeEdit' = ""
    /\ blockingVisible' = TRUE
    /\ fx' = Append(fx, Effect("showBlocking", text, 0))

(***************************************************************************)
(* The state after construction.  main.rs runs init_database (which puts   *)
(* a default under every fixed key that is missing), loads the countdown   *)
(* and the session's active time, shows the mini overlay and, with no time *)
(* left, the blocking screen at once.                                      *)
(*                                                                         *)
(* A scenario is what an earlier run and the parent's settings left in the *)
(* table, and the date and time at which the process starts.               *)
(***************************************************************************)
MidClock == [wYear |-> 2026, wMonth |-> 11, wDay |-> 2, wDayOfWeek |-> 1,
             wHour |-> 10, wMinute |-> 0, wSecond |-> 0]

\* two seconds before midnight on the last day of a 31-day month
EomClock == [wYear |-> 2026, wMonth |-> 10, wDay |-> 31, wDayOfWeek |-> 6,
             wHour |-> 23, wMinute |-> 59, wSecond |-> 58]

Put(d, key, value) == IF value = NoneV THEN d ELSE set_setting(d, key, value)

\* what init_database leaves under the fixed keys
FixedDb(sc) ==
    [key \in {Key("passcode"), Key("warning1_minutes"), Key("warning1_message"),
              Key("warning2_minutes"), Key("warning2_message"), Key("blocking_message"),
              Key("pause_enabled"), Key("pause_daily_budget"), Key("pause_max_duration"),
              Key("pause_cooldown"), Key("pause_min_active_time")}
             \cup {Key(WEEKDAY_KEYS[i]) : i \in 1..7} |->
        CASE key = Key("passcode") -> TextV("0000")
          [] key = Key("warning1_minutes") -> IntV(sc.warn1)
          [] key = Key("warning1_message") -> TextV("warning 1")
          [] key = Key("warning2_minutes") -> IntV(sc.warn2)
          [] key = Key("warning2_message") -> TextV("warning 2")
          [] key = Key("blocking_message") -> TextV("time is up")
          [] key = Key("pause_enabled") -> IntV(sc.enabled)
          [] key = Key("pause_daily_budget") -> IntV(sc.budget)
          [] key = Key("pause_max_duration") -> IntV(sc.max_duration)
          [] key = Key("pause_cooldown") -> IntV(sc.cooldown)
          [] key = Key("pause_min_active_time") -> IntV(sc.min_active)
          [] key = Key(WEEKDAY_KEYS[get_current_weekday(sc.clock) + 1]) -> IntV(sc.limit)
          [] OTHER -> IntV(sc.limit_other)]

\* an earlier pause of `used` seconds that ended `ended_ago` seconds ago
EarlierLog(sc) ==
    IF sc.used > 0
    THEN LogV(<<[time |-> <<9, 0, 0>>, duration |-> sc.used]>>)
    ELSE NoneV

Db0(sc) ==
    LET today == get_today_date(sc.clock)
        d1 == Put(FixedDb(sc), DateKey("remaining_time", today), sc.remaining)
        d2 == Put(d1, DateKey("session_active", today), sc.active)
        d3 == Put(d2, DateKey("pause_used", today),
                  IF sc.used > 0 THEN IntV(sc.used) ELSE NoneV)
        d4 == Put(d3, DateKey("pause_log", today), EarlierLog(sc))
    IN  Put(d4, Key("pause_last_end_timestamp"),
            IF sc.ended_ago > 0
            THEN IntV(get_current_timestamp(sc.clock) - sc.ended_ago)
            ELSE NoneV)

\* fault: the limit is taken whatever is stored for today
main_remaining_fresh(d, c) == as_i32(get_daily_limit(d, get_current_weekday(c)) * 60)

\* main.rs:110-129
main_remaining(d, c) ==
    LET loaded == load_remaining_time(d, c)
    IN  IF loaded # NoneV THEN loaded.n
        ELSE as_i32(get_daily_limit(d, get_current_weekday(c)) * 60)

\* fault: only a negative countdown blocks at startup
main_blocked_negative(remaining) == remaining < 0

\* main.rs:126
main_blocked(remaining) == remaining <= 0

InitFrom(scenarios, ops, ticks, interleave) ==
    \E sc \in scenarios :
        LET remaining == main_remaining(Db0(sc), sc.clock) IN
        /\ db = Db0(sc)
        /\ clock = sc.clock
        /\ REMAINING_SECONDS = remaining
        /\ SESSION_ACTIVE_SECONDS = get_session_active_time(db, clock)
        /\ IS_PAUSED = FALSE
        /\ PAUSE_START_TIMESTAMP = 0
        /\ CURRENT_PAUSE_DURATION = 0
        /\ PASSCODE_ERROR = FALSE
        /\ passcodeEdit = ""
        /\ MINI_OVERLAY_VISIBLE = ~main_blocked(remaining)
        /\ miniTimer = IF main_blocked(remaining) THEN "off" ELSE "armed"
        /\ blockingVisible = main_blocked(remaining)
        /\ fx = IF main_blocked(remaining)
                THEN <<Effect("showBlocking", get_blocking_message(db), 0)>>
                ELSE <<>>
        /\ pc = [t \in Threads |-> IF t = "ui" THEN "done" ELSE "idle"]
        /\ op = [t \in Threads |-> IF t = "ui" THEN [NoOp EXCEPT !.name = "main"] ELSE NoOp]
        /\ loc = [t \in Threads |-> NoLoc]
        /\ ret = [t \in Threads |-> NoRet]
        /\ pre = [t \in Threads |-> NoPre]
        /\ opsLeft = ops
        /\ ticksLeft = ticks
        /\ overlap = interleave
        /\ outage = "none"
        /\ admin_chat_id = sc.admin

(***************************************************************************)
(* main.rs:38-147  The process ends (it is quit, killed, or the machine    *)
(* goes down) while no handler runs, and is started again: the statics are *)
(* back at their initial values, the settings table and the clock are what *)
(* they were, and main runs as at the first start.                         *)
(***************************************************************************)
Restart ==
    /\ pc["bot"] = "idle"
    /\ outage = "none"
    /\ BeginCommand("ui", [NoOp EXCEPT !.name = "main"], "done")
    /\ LET remaining == main_remaining(db, clock) IN
        /\ REMAINING_SECONDS' = remaining
        /\ SESSION_ACTIVE_SECONDS' = get_session_active_time(db, clock)
        /\ IS_PAUSED' = FALSE
        /\ PAUSE_START_TIMESTAMP' = 0
        /\ CURRENT_PAUSE_DURATION' = 0
        /\ PASSCODE_ERROR' = FALSE
        /\ passcodeEdit' = ""
        /\ MINI_OVERLAY_VISIBLE' = ~main_blocked(remaining)
        /\ miniTimer' = IF main_blocked(remaining) THEN "off" ELSE "armed"
        /\ blockingVisible' = main_blocked(remaining)
        /\ fx' = IF main_blocked(remaining)
                 THEN <<Effect("showBlocking", get_blocking_message(db), 0)>>
                 ELSE <<>>
    /\ UNCHANGED <<db, clock, loc, ret, ticksLeft, overlap, outage, admin_chat_id>>

(***************************************************************************)
(* database.rs:132-152  The store begins to fail (the database file is     *)
(* locked or cannot be written, the disk is full) or works again.  The     *)
(* store changes between handlers.                                         *)
(***************************************************************************)
StoreFails ==
    /\ outage = "none"
    /\ \A t \in Threads : pc[t] = "idle"
    /\ \E kind \in {"write", "all"} : outage' = kind
    /\ UNCHANGED <<mem, win, db, clock, ctl, opsLeft, ticksLeft, overlap, admin_chat_id>>

StoreRecovers ==
    /\ outage # "none"
    /\ \A t \in Threads : pc[t] = "idle"
    /\ outage' = "none"
    /\ UNCHANGED <<mem, win, db, clock, ctl, opsLeft, ticksLeft, overlap, admin_chat_id>>

(***************************************************************************)
(* Time.  A second passes and an armed one-second timer becomes due.       *)
(* Handlers take no time: a second passes while no handler runs, and a due *)
(* WM_TIMER is handled before the next second passes.                      *)
(***************************************************************************)
ClockTick ==
    /\ ticksLeft > 0
    /\ \A t \in Threads : pc[t] = "idle"
    /\ miniTimer # "due"
    /\ ticksLeft' = ticksLeft - 1
    /\ clock' = NextSecond(clock)
    /\ miniTimer' = IF miniTimer = "off" THEN "off" ELSE "due"
    /\ UNCHANGED <<mem, MINI_OVERLAY_VISIBLE, blockingVisible, PASSCODE_ERROR,
                   passcodeEdit, db, ctl, opsLeft, overlap, outage, admin_chat_id>>

(***************************************************************************)
(* mini_overlay.rs:369-423  mini_overlay_proc, WM_TIMER                    *)
(***************************************************************************)
WM_TIMER ==
    /\ miniTimer = "due"
    /\ Begin("ui", [NoOp EXCEPT !.name = "WM_TIMER"], "timer_load_paused")
    /\ miniTimer' = "armed"
    /\ UNCHANGED <<mem, MINI_OVERLAY_VISIBLE, blockingVisible, PASSCODE_ERROR,
                   passcodeEdit, db, clock, loc, ret, fx, lim>>

\* :371-373
timer_load_paused ==
    /\ pc["ui"] = "timer_load_paused"
    /\ Goto("ui", IF IS_PAUSED THEN "timer_inc_pause" ELSE "timer_load_remaining")
    /\ UNCHANGED <<mem, win, db, clock, op, loc, ret, pre, fx, lim>>

\* :375  fetch_add(1) + 1
timer_inc_pause ==
    /\ pc["ui"] = "timer_inc_pause"
    /\ CURRENT_PAUSE_DURATION' = as_i32(CURRENT_PAUSE_DURATION + 1)
    /\ loc' = [loc EXCEPT !["ui"].duration = as_i32(CURRENT_PAUSE_DURATION + 1)]
    /\ Goto("ui", "timer_max_duration")
    /\ UNCHANGED <<REMAINING_SECONDS, IS_PAUSED, PAUSE_START_TIMESTAMP,
                   SESSION_ACTIVE_SECONDS, win, db, clock, op, ret, pre, fx, lim>>

\* :376-382
timer_max_duration ==
    /\ pc["ui"] = "timer_max_duration"
    /\ LET max_duration == get_max_pause_duration(Store, clock) IN
        /\ loc' = [loc EXCEPT !["ui"].max_duration = max_duration]
        /\ Goto("ui", IF loc["ui"].duration >= max_duration
                      THEN "resume_load_duration" ELSE "timer_invalidate")
    /\ UNCHANGED <<mem, win, db, clock, op, ret, pre, fx, lim>>

\* :385-386
timer_load_remaining ==
    /\ pc["ui"] = "timer_load_remaining"
    /\ loc' = [loc EXCEPT !["ui"].current = REMAINING_SECONDS]
    /\ Goto("ui", IF REMAINING_SECONDS > 0 THEN "timer_store_remaining"
                  ELSE "timer_invalidate")
    /\ UNCHANGED <<mem, win, db, clock, op, ret, pre, fx, lim>>

\* fault: the countdown is stored back as it was read
new_time_kept == loc["ui"].current

\* :387  let new_time = current - 1
new_time == loc["ui"].current - 1

\* fault: the first tick of a date starts from the limit of that day
timer_store_remaining_new_day ==
    /\ pc["ui"] = "timer_store_remaining"
    /\ REMAINING_SECONDS' =
          IF load_remaining_time(Store, clock) = NoneV
          THEN as_i32(get_daily_limit(Store, get_current_weekday(clock)) * 60)
          ELSE new_time
    /\ Goto("ui", "timer_inc_active")
    /\ UNCHANGED <<IS_PAUSED, PAUSE_START_TIMESTAMP, CURRENT_PAUSE_DURATION,
                   SESSION_ACTIVE_SECONDS, win, db, clock, op, loc, ret, pre, fx, lim>>

\* :388
timer_store_remaining ==
    /\ pc["ui"] = "timer_store_remaining"
    /\ REMAINING_SECONDS' = new_time
    /\ Goto("ui", "timer_inc_active")
    /\ UNCHANGED <<IS_PAUSED, PAUSE_START_TIMESTAMP, CURRENT_PAUSE_DURATION,
                   SESSION_ACTIVE_SECONDS, win, db, clock, op, loc, ret, pre, fx, lim>>

\* :391-394
timer_inc_active ==
    /\ pc["ui"] = "timer_inc_active"
    /\ SESSION_ACTIVE_SECONDS' = as_i32(SESSION_ACTIVE_SECONDS + 1)
    /\ Goto("ui", IF new_time % 30 = 0 THEN "timer_save_remaining" ELSE "timer_warnings")
    /\ UNCHANGED <<REMAINING_SECONDS, IS_PAUSED, PAUSE_START_TIMESTAMP,
                   CURRENT_PAUSE_DURATION, win, db, clock, op, loc, ret, pre, fx, lim>>

\* :395
timer_save_remaining ==
    /\ pc["ui"] = "timer_save_remaining"
    /\ db' = Written(save_remaining_time(db, clock, new_time))
    /\ Goto("ui", "timer_save_active")
    /\ UNCHANGED <<mem, win, clock, op, loc, ret, pre, fx, lim>>

\* :397-398
timer_save_active ==
    /\ pc["ui"] = "timer_save_active"
    /\ db' = Written(save_session_active_time(db, clock, SESSION_ACTIVE_SECONDS))
    /\ Goto("ui", "timer_warnings")
    /\ UNCHANGED <<mem, win, clock, op, loc, ret, pre, fx, lim>>

\* fault: a range check in place of the exact match
warnings_in_range(d, time) ==
    LET w1 == get_warning_config(d, 1)
        w2 == get_warning_config(d, 2)
    IN  (IF time <= as_i32(w1.minutes * 60)
         THEN <<Effect("showWarning", w1.message, 10)>> ELSE <<>>)
        \o
        (IF time <= as_i32(w2.minutes * 60)
         THEN <<Effect("showWarning", w2.message, 10)>> ELSE <<>>)

\* :401-411  show_overlay(&msg, 10) for each threshold that new_time equals
warnings_due(d, time) ==
    LET w1 == get_warning_config(d, 1)
        w2 == get_warning_config(d, 2)
    IN  (IF time = as_i32(w1.minutes * 60)
         THEN <<Effect("showWarning", w1.message, 10)>> ELSE <<>>)
        \o
        (IF time = as_i32(w2.minutes * 60)
         THEN <<Effect("showWarning", w2.message, 10)>> ELSE <<>>)

timer_warnings ==
    /\ pc["ui"] = "timer_warnings"
    /\ fx' = fx \o warnings_due(Store, new_time)
    /\ Goto("ui", "timer_block")
    /\ UNCHANGED <<mem, win, db, clock, op, loc, ret, pre, lim>>

\* fault: the blocking screen is raised one second early as well
timer_block_early ==
    /\ pc["ui"] = "timer_block"
    /\ IF new_time <= 1
       THEN show_blocking_overlay(get_blocking_message(Store))
       ELSE UNCHANGED <<win, fx>>
    /\ Goto("ui", "timer_invalidate")
    /\ UNCHANGED <<mem, db, clock, op, loc, ret, pre, lim>>

\* :413-417
timer_block ==
    /\ pc["ui"] = "timer_block"
    /\ IF new_time = 0
       THEN show_blocking_overlay(get_blocking_message(Store))
       ELSE UNCHANGED <<win, fx>>
    /\ Goto("ui", "timer_invalidate")
    /\ UNCHANGED <<mem, db, clock, op, loc, ret, pre, lim>>

\* :420-422
timer_invalidate ==
    /\ pc["ui"] = "timer_invalidate"
    /\ Finish("ui", NoRet)
    /\ UNCHANGED <<mem, win, db, clock, op, loc, pre, fx, lim>>

(***************************************************************************)
(* mini_overlay.rs:167-219  can_pause.  Called by toggle_pause and by the  *)
(* tray's show_context_menu.                                               *)
(***************************************************************************)
\* the text a remote command answers with (telegram.rs:300-322)
Reply(name, r) ==
    IF name = "cmd_pause"
    THEN (IF r.tag = "Err" THEN "Cannot pause"
          ELSE IF r.val THEN "Timer paused"
          ELSE "Timer was not paused (unexpected state)")
    ELSE IF name = "cmd_resume"
    THEN (IF r.tag = "Err" THEN "Cannot resume"
          ELSE IF r.val THEN "Timer is still paused (unexpected state)"
          ELSE "Timer resumed")
    ELSE IF name = "show_context_menu"
    THEN (IF r.tag = "Err" THEN "Pause (grayed)" ELSE "Pause Timer")
    ELSE ""

\* toggle_pause's caller gets r
FinishToggle(t, r) == Finish(t, [r EXCEPT !.reply = Reply(op[t].name, r)])

\* fault: toggle_pause drops can_pause's verdict and pauses regardless
CanPauseIgnored(t, r) ==
    /\ Goto(t, IF op[t].name = "show_context_menu" THEN "menu_budget"
               ELSE "pause_store_start")
    /\ UNCHANGED ret

\* can_pause returns r: to the menu, or to toggle_pause, whose `?` passes an
\* Err on and which goes on to pause_timer after Ok
CanPauseReturns(t, r) ==
    IF r.tag = "Err"
    THEN FinishToggle(t, r)
    ELSE /\ Goto(t, IF op[t].name = "show_context_menu" THEN "menu_budget"
                    ELSE "pause_store_start")
         /\ UNCHANGED ret

\* :170-172
can_pause_load_paused(t) ==
    /\ pc[t] = "can_pause_load_paused"
    /\ IF IS_PAUSED
       THEN CanPauseReturns(t, Ok(FALSE))
       ELSE Goto(t, "can_pause_enabled") /\ UNCHANGED ret
    /\ UNCHANGED <<mem, win, db, clock, op, loc, pre, fx, lim>>

\* fault: the feature switch is not consulted
can_pause_enabled_skipped(t) ==
    /\ pc[t] = "can_pause_enabled"
    /\ Goto(t, "can_pause_remaining")
    /\ UNCHANGED <<mem, win, db, clock, op, loc, ret, pre, fx, lim>>

\* :175-177
can_pause_enabled(t) ==
    /\ pc[t] = "can_pause_enabled"
    /\ IF ~is_pause_enabled(Store)
       THEN CanPauseReturns(t, Err("Disabled", 0))
       ELSE Goto(t, "can_pause_remaining") /\ UNCHANGED ret
    /\ UNCHANGED <<mem, win, db, clock, op, loc, pre, fx, lim>>

\* fault: the countdown is only required to be positive
can_pause_remaining_positive(t) ==
    /\ pc[t] = "can_pause_remaining"
    /\ loc' = [loc EXCEPT ![t].config = get_pause_config(Store)]
    /\ IF REMAINING_SECONDS <= 0
       THEN CanPauseReturns(t, Err("TimeTooLow", 0))
       ELSE Goto(t, "can_pause_budget") /\ UNCHANGED ret
    /\ UNCHANGED <<mem, win, db, clock, op, pre, fx, lim>>

\* :179-185
can_pause_remaining(t) ==
    /\ pc[t] = "can_pause_remaining"
    /\ loc' = [loc EXCEPT ![t].config = get_pause_config(Store)]
    /\ IF REMAINING_SECONDS < 60
       THEN CanPauseReturns(t, Err("TimeTooLow", 0))
       ELSE Goto(t, "can_pause_budget") /\ UNCHANGED ret
    /\ UNCHANGED <<mem, win, db, clock, op, pre, fx, lim>>

\* fault: a pause is refused only when more than the budget is used
can_pause_budget_over(t) ==
    /\ pc[t] = "can_pause_budget"
    /\ LET pause_used == get_pause_used_today(Store, clock)
           budget_seconds == as_i32(loc[t].config.daily_budget_minutes * 60)
       IN  IF pause_used > budget_seconds
           THEN CanPauseReturns(t, Err("BudgetExhausted", 0))
           ELSE Goto(t, "can_pause_cooldown") /\ UNCHANGED ret
    /\ UNCHANGED <<mem, win, db, clock, op, loc, pre, fx, lim>>

\* :188-192
can_pause_budget(t) ==
    /\ pc[t] = "can_pause_budget"
    /\ LET pause_used == get_pause_used_today(Store, clock)
           budget_seconds == as_i32(loc[t].config.daily_budget_minutes * 60)
       IN  IF pause_used >= budget_seconds
           THEN CanPauseReturns(t, Err("BudgetExhausted", 0))
           ELSE Goto(t, "can_pause_cooldown") /\ UNCHANGED ret
    /\ UNCHANGED <<mem, win, db, clock, op, loc, pre, fx, lim>>

\* fault: the cooldown is counted in minutes of 59 seconds
can_pause_cooldown_short(t) ==
    /\ pc[t] = "can_pause_cooldown"
    /\ LET last_pause_end == get_last_pause_end(Store)
           current_time == get_current_timestamp(clock)
           cooldown_seconds == loc[t].config.cooldown_minutes * 59
           time_since_last_pause == current_time - last_pause_end
       IN  IF last_pause_end > 0 /\ time_since_last_pause < cooldown_seconds
           THEN CanPauseReturns(t, Err("CooldownActive",
                                     as_i32(cooldown_seconds - time_since_last_pause)))
           ELSE Goto(t, "can_pause_active") /\ UNCHANGED ret
    /\ UNCHANGED <<mem, win, db, clock, op, loc, pre, fx, lim>>

\* :195-205
can_pause_cooldown(t) ==
    /\ pc[t] = "can_pause_cooldown"
    /\ LET last_pause_end == get_last_pause_end(Store)
           current_time == get_current_timestamp(clock)
           cooldown_seconds == loc[t].config.cooldown_minutes * 60
           time_since_last_pause == current_time - last_pause_end
       IN  IF last_pause_end > 0 /\ time_since_last_pause < cooldown_seconds
           THEN CanPauseReturns(t, Err("CooldownActive",
                                     as_i32(cooldown_seconds - time_since_last_pause)))
           ELSE Goto(t, "can_pause_active") /\ UNCHANGED ret
    /\ UNCHANGED <<mem, win, db, clock, op, loc, pre, fx, lim>>

\* :208-218
can_pause_active(t) ==
    /\ pc[t] = "can_pause_active"
    /\ LET session_active == SESSION_ACTIVE_SECONDS
           min_active_seconds == as_i32(loc[t].config.min_active_time_minutes * 60)
       IN  IF session_active < min_active_seconds
           THEN CanPauseReturns(t, Err("MinActiveTimeNotMet",
                                     min_active_seconds - session_active))
           ELSE CanPauseReturns(t, Ok(FALSE))
    /\ UNCHANGED <<mem, win, db, clock, op, loc, pre, fx, lim>>

(***************************************************************************)
(* mini_overlay.rs:237-249  toggle_pause                                   *)
(***************************************************************************)
\* :239
toggle_load_paused(t) ==
    /\ pc[t] = "toggle_load_paused"
    /\ Goto(t, IF IS_PAUSED THEN "resume_load_duration" ELSE "can_pause_load_paused")
    /\ UNCHANGED <<mem, win, db, clock, op, loc, ret, pre, fx, lim>>

(***************************************************************************)
(* mini_overlay.rs:251-265  pause_timer                                    *)
(***************************************************************************)
\* :253-254
pause_store_start(t) ==
    /\ pc[t] = "pause_store_start"
    /\ PAUSE_START_TIMESTAMP' = get_current_timestamp(clock)
    /\ Goto(t, "pause_store_duration")
    /\ UNCHANGED <<REMAINING_SECONDS, IS_PAUSED, CURRENT_PAUSE_DURATION,
                   SESSION_ACTIVE_SECONDS, win, db, clock, op, loc, ret, pre, fx, lim>>

\* :255
pause_store_duration(t) ==
    /\ pc[t] = "pause_store_duration"
    /\ CURRENT_PAUSE_DURATION' = 0
    /\ Goto(t, "pause_store_paused")
    /\ UNCHANGED <<REMAINING_SECONDS, IS_PAUSED, PAUSE_START_TIMESTAMP,
                   SESSION_ACTIVE_SECONDS, win, db, clock, op, loc, ret, pre, fx, lim>>

\* fault: entering a pause stamps the store as a resume does
pause_store_paused_saved(t) ==
    /\ pc[t] = "pause_store_paused"
    /\ IS_PAUSED' = TRUE
    /\ db' = Written(save_last_pause_end(db, get_current_timestamp(clock)))
    /\ FinishToggle(t, Ok(TRUE))
    /\ UNCHANGED <<REMAINING_SECONDS, PAUSE_START_TIMESTAMP, CURRENT_PAUSE_DURATION,
                   SESSION_ACTIVE_SECONDS, win, clock, op, loc, pre, fx, lim>>

\* :256, and toggle_pause's Ok(true) (:247)
pause_store_paused(t) ==
    /\ pc[t] = "pause_store_paused"
    /\ IS_PAUSED' = TRUE
    /\ FinishToggle(t, Ok(TRUE))
    /\ UNCHANGED <<REMAINING_SECONDS, PAUSE_START_TIMESTAMP, CURRENT_PAUSE_DURATION,
                   SESSION_ACTIVE_SECONDS, win, db, clock, op, loc, pre, fx, lim>>

(***************************************************************************)
(* mini_overlay.rs:267-299  resume_timer, force_resume                     *)
(***************************************************************************)
\* :269
resume_load_duration(t) ==
    /\ pc[t] = "resume_load_duration"
    /\ loc' = [loc EXCEPT ![t].pause_duration = CURRENT_PAUSE_DURATION]
    /\ Goto(t, "resume_get_used")
    /\ UNCHANGED <<mem, win, db, clock, op, ret, pre, fx, lim>>

\* fault: the seconds used earlier today are forgotten
resume_get_used_lost(t) ==
    /\ pc[t] = "resume_get_used"
    /\ loc' = [loc EXCEPT ![t].total_used = loc[t].pause_duration]
    /\ Goto(t, "resume_save_used")
    /\ UNCHANGED <<mem, win, db, clock, op, ret, pre, fx, lim>>

\* :272
resume_get_used(t) ==
    /\ pc[t] = "resume_get_used"
    /\ loc' = [loc EXCEPT ![t].total_used =
                  as_i32(get_pause_used_today(Store, clock) + loc[t].pause_duration)]
    /\ Goto(t, "resume_save_used")
    /\ UNCHANGED <<mem, win, db, clock, op, ret, pre, fx, lim>>

\* :273
resume_save_used(t) ==
    /\ pc[t] = "resume_save_used"
    /\ db' = Written(save_pause_used_today(db, clock, loc[t].total_used))
    /\ Goto(t, "resume_log_get")
    /\ UNCHANGED <<mem, win, clock, op, loc, ret, pre, fx, lim>>

\* :276, database.rs:333-342
resume_log_get(t) ==
    /\ pc[t] = "resume_log_get"
    /\ loc' = [loc EXCEPT ![t].existing = pause_log_existing(Store, clock)]
    /\ Goto(t, "resume_log_set")
    /\ UNCHANGED <<mem, win, db, clock, op, ret, pre, fx, lim>>

\* database.rs:343-351
resume_log_set(t) ==
    /\ pc[t] = "resume_log_set"
    /\ db' = Written(set_setting(db, DateKey("pause_log", get_today_date(clock)),
                                 LogV(pause_log_updated(loc[t].existing, clock,
                                                        loc[t].pause_duration))))
    /\ Goto(t, "resume_save_last_end")
    /\ UNCHANGED <<mem, win, clock, op, loc, ret, pre, fx, lim>>

\* :279-280
resume_save_last_end(t) ==
    /\ pc[t] = "resume_save_last_end"
    /\ db' = Written(save_last_pause_end(db, get_current_timestamp(clock)))
    /\ Goto(t, "resume_store_paused")
    /\ UNCHANGED <<mem, win, clock, op, loc, ret, pre, fx, lim>>

\* :283
resume_store_paused(t) ==
    /\ pc[t] = "resume_store_paused"
    /\ IS_PAUSED' = FALSE
    /\ Goto(t, "resume_store_start")
    /\ UNCHANGED <<REMAINING_SECONDS, PAUSE_START_TIMESTAMP, CURRENT_PAUSE_DURATION,
                   SESSION_ACTIVE_SECONDS, win, db, clock, op, loc, ret, pre, fx, lim>>

\* :284
resume_store_start(t) ==
    /\ pc[t] = "resume_store_start"
    /\ PAUSE_START_TIMESTAMP' = 0
    /\ Goto(t, "resume_store_duration")
    /\ UNCHANGED <<REMAINING_SECONDS, IS_PAUSED, CURRENT_PAUSE_DURATION,
                   SESSION_ACTIVE_SECONDS, win, db, clock, op, loc, ret, pre, fx, lim>>

\* :285; back in the timer handler after force_resume (:381), or
\* toggle_pause's Ok(false) (:242)
resume_store_duration(t) ==
    /\ pc[t] = "resume_store_duration"
    /\ CURRENT_PAUSE_DURATION' = 0
    /\ IF op[t].name = "WM_TIMER"
       THEN Goto(t, "timer_invalidate") /\ UNCHANGED ret
       ELSE FinishToggle(t, Ok(FALSE))
    /\ UNCHANGED <<REMAINING_SECONDS, IS_PAUSED, PAUSE_START_TIMESTAMP,
                   SESSION_ACTIVE_SECONDS, win, db, clock, op, loc, pre, fx, lim>>

(***************************************************************************)
(* blocking.rs:146-158  extend_time.  Called from the tray menu, from the  *)
(* blocking screen's extend buttons and from the remote extend command.    *)
(***************************************************************************)
\* :148
extend_load(t) ==
    /\ pc[t] = "extend_load"
    /\ loc' = [loc EXCEPT ![t].current = REMAINING_SECONDS]
    /\ Goto(t, "extend_store")
    /\ UNCHANGED <<mem, win, db, clock, op, ret, pre, fx, lim>>

\* fault: the seconds are added to whatever the countdown holds
extended_added(current, minutes) == as_i32(current + as_i32(minutes * 60))

\* :149-157
extended(current, minutes) ==
    LET additional_seconds == as_i32(minutes * 60)
    IN  IF current < 0 THEN additional_seconds
        ELSE as_i32(current + additional_seconds)

extend_store(t) ==
    /\ pc[t] = "extend_store"
    /\ REMAINING_SECONDS' = extended(loc[t].current, op[t].minutes)
    /\ IF op[t].name = "IDM_EXTEND"
       THEN Finish(t, NoRet)
       ELSE /\ Goto(t, IF op[t].name = "ID_EXTEND" THEN "blocking_extend_done"
                       ELSE "cmd_extend_reply")
            /\ UNCHANGED ret
    /\ UNCHANGED <<IS_PAUSED, PAUSE_START_TIMESTAMP, CURRENT_PAUSE_DURATION,
                   SESSION_ACTIVE_SECONDS, win, db, clock, op, loc, pre, fx, lim>>

(***************************************************************************)
(* blocking.rs:179-202  hide_blocking_overlay                              *)
(***************************************************************************)
\* :181-195  the window is hidden, then the countdown is read
hide_load_remaining ==
    /\ pc["ui"] = "hide_load_remaining"
    /\ blockingVisible' = FALSE
    /\ fx' = Append(fx, Effect("hideBlocking", NoneV, 0))
    /\ loc' = [loc EXCEPT !["ui"].current = REMAINING_SECONDS]
    /\ Goto("ui", "hide_save_remaining")
    /\ UNCHANGED <<mem, MINI_OVERLAY_VISIBLE, miniTimer, PASSCODE_ERROR, passcodeEdit,
                   db, clock, op, ret, pre, lim>>

\* :196
hide_save_remaining ==
    /\ pc["ui"] = "hide_save_remaining"
    /\ db' = Written(save_remaining_time(db, clock, loc["ui"].current))
    /\ Goto("ui", "hide_show_mini")
    /\ UNCHANGED <<mem, win, clock, op, loc, ret, pre, fx, lim>>

\* :198-201
hide_show_mini ==
    /\ pc["ui"] = "hide_show_mini"
    /\ IF loc["ui"].current > 0
       THEN show_mini_overlay
       ELSE UNCHANGED <<MINI_OVERLAY_VISIBLE, miniTimer>>
    /\ Finish("ui", NoRet)
    /\ UNCHANGED <<mem, blockingVisible, PASSCODE_ERROR, passcodeEdit, db, clock,
                   op, loc, pre, fx, lim>>

(***************************************************************************)
(* The passcode checks.                                                    *)
(***************************************************************************)
\* what the user types into a passcode field: the right code or a wrong one
Codes == {"0000", "1234"}

\* dialogs.rs:57-74: the passcode dialog's result; no stored code, no dialog
verify_passcode_for_quit(d, entered) ==
    LET stored_passcode == get_passcode(d)
    IN  IF stored_passcode = NoneV THEN TRUE ELSE TextV(entered) = stored_passcode

\* blocking.rs:205-220
check_blocking_passcode(d, entered) ==
    LET stored == get_passcode(d)
    IN  stored # NoneV /\ TextV(entered) = stored

(***************************************************************************)
(* tray.rs:179-255  window_proc, WM_COMMAND, and show_context_menu         *)
(***************************************************************************)
\* :199-210
IDM_PAUSE_TOGGLE ==
    /\ BeginCommand("ui", [NoOp EXCEPT !.name = "IDM_PAUSE_TOGGLE"], "toggle_load_paused")
    /\ UNCHANGED <<mem, win, db, clock, loc, ret, fx, ticksLeft, overlap, outage, admin_chat_id>>

\* :229-238  IDM_EXTEND_15, IDM_EXTEND_45
IDM_EXTEND ==
    \E minutes \in {15, 45}, entered \in Codes :
        /\ BeginCommand("ui", [NoOp EXCEPT !.name = "IDM_EXTEND", !.minutes = minutes,
                                           !.entered = entered], "tray_verify_passcode")
        /\ UNCHANGED <<mem, win, db, clock, loc, ret, fx, ticksLeft, overlap, outage, admin_chat_id>>

\* :230, :235, :220 and the stats dialog's reset button behind it
tray_verify_passcode ==
    /\ pc["ui"] = "tray_verify_passcode"
    /\ IF verify_passcode_for_quit(Store, op["ui"].entered)
       THEN /\ Goto("ui", IF op["ui"].name = "ID_RESET_TIMER" THEN "reset_store"
                          ELSE "extend_load")
            /\ UNCHANGED ret
       ELSE Finish("ui", NoRet)
    /\ UNCHANGED <<mem, win, db, clock, op, loc, pre, fx, lim>>

\* :215-218
IDM_SHOW_BLOCKING ==
    /\ BeginCommand("ui", [NoOp EXCEPT !.name = "IDM_SHOW_BLOCKING"], "done")
    /\ show_blocking_overlay(get_blocking_message(Store))
    /\ UNCHANGED <<mem, db, clock, loc, ret, ticksLeft, overlap, outage, admin_chat_id>>

\* :71-126  the menu is built: is_paused, is_pause_enabled, then can_pause
show_context_menu ==
    /\ BeginCommand("ui", [NoOp EXCEPT !.name = "show_context_menu"], "menu_load_paused")
    /\ UNCHANGED <<mem, win, db, clock, loc, ret, fx, ticksLeft, overlap, outage, admin_chat_id>>

\* :75-86
menu_load_paused ==
    /\ pc["ui"] = "menu_load_paused"
    /\ IF IS_PAUSED
       THEN Finish("ui", [Ok(FALSE) EXCEPT !.reply = "Resume Timer"])
       ELSE IF ~is_pause_enabled(Store)
       THEN Finish("ui", [Err("Disabled", 0) EXCEPT !.reply = "Pause (Disabled)"])
       ELSE Goto("ui", "can_pause_load_paused") /\ UNCHANGED ret
    /\ UNCHANGED <<mem, win, db, clock, op, loc, pre, fx, lim>>

\* :87-94  "Pause Timer ({}m left)"
menu_budget ==
    /\ pc["ui"] = "menu_budget"
    /\ Finish("ui", [Ok(FALSE) EXCEPT
                        !.reply = "Pause Timer",
                        !.seconds_remaining = get_remaining_pause_budget(Store, clock) \div 60])
    /\ UNCHANGED <<mem, win, db, clock, op, loc, pre, fx, lim>>

(***************************************************************************)
(* blocking.rs:567-685  blocking_overlay_proc: the blocking screen's       *)
(* buttons and the Enter key.                                              *)
(***************************************************************************)
\* what the user has typed into the passcode field when a button is clicked
\* or Enter is pressed
Typed(entered) ==
    /\ passcodeEdit' = entered
    /\ UNCHANGED <<MINI_OVERLAY_VISIBLE, miniTimer, blockingVisible, PASSCODE_ERROR>>

\* :573-575, :668-671
ID_UNLOCK_BUTTON ==
    \E entered \in Codes :
        /\ blockingVisible
        /\ BeginCommand("ui", [NoOp EXCEPT !.name = "ID_UNLOCK_BUTTON",
                                           !.entered = entered], "blocking_check_passcode")
        /\ Typed(entered)
        /\ UNCHANGED <<mem, db, clock, loc, ret, fx, ticksLeft, overlap, outage, admin_chat_id>>

\* :588-597  ID_EXTEND_15, ID_EXTEND_30, ID_EXTEND_60
ID_EXTEND ==
    \E minutes \in {15, 30, 60}, entered \in Codes :
        /\ blockingVisible
        /\ BeginCommand("ui", [NoOp EXCEPT !.name = "ID_EXTEND", !.minutes = minutes,
                                           !.entered = entered], "blocking_check_passcode")
        /\ Typed(entered)
        /\ UNCHANGED <<mem, db, clock, loc, ret, fx, ticksLeft, overlap, outage, admin_chat_id>>

\* :620-622
ID_SHUTDOWN_BUTTON ==
    \E entered \in Codes :
        /\ blockingVisible
        /\ BeginCommand("ui", [NoOp EXCEPT !.name = "ID_SHUTDOWN_BUTTON",
                                           !.entered = entered], "blocking_check_passcode")
        /\ Typed(entered)
        /\ UNCHANGED <<mem, db, clock, loc, ret, fx, ticksLeft, overlap, outage, admin_chat_id>>

\* fault: once the error flag is up every passcode is refused
blocking_check_passcode_locked ==
    /\ pc["ui"] = "blocking_check_passcode"
    /\ IF ~PASSCODE_ERROR /\ check_blocking_passcode(Store, passcodeEdit)
       THEN /\ Goto("ui", CASE op["ui"].name = "ID_EXTEND" -> "extend_load"
                            [] op["ui"].name = "ID_SHUTDOWN_BUTTON" -> "blocking_shutdown"
                            [] OTHER -> "hide_load_remaining")
            /\ UNCHANGED <<ret, PASSCODE_ERROR, passcodeEdit>>
       ELSE /\ PASSCODE_ERROR' = TRUE
            /\ passcodeEdit' = ""
            /\ Finish("ui", NoRet)
    /\ UNCHANGED <<mem, MINI_OVERLAY_VISIBLE, miniTimer, blockingVisible, db, clock,
                   op, loc, pre, fx, lim>>

\* :574, :590, :622 and the failure branches :577-586, :609-618, :625-634:
\* the flag is set and the field emptied
blocking_check_passcode ==
    /\ pc["ui"] = "blocking_check_passcode"
    /\ IF check_blocking_passcode(Store, passcodeEdit)
       THEN /\ Goto("ui", CASE op["ui"].name = "ID_EXTEND" -> "extend_load"
                            [] op["ui"].name = "ID_SHUTDOWN_BUTTON" -> "blocking_shutdown"
                            [] OTHER -> "hide_load_remaining")
            /\ UNCHANGED <<ret, PASSCODE_ERROR, passcodeEdit>>
       ELSE /\ PASSCODE_ERROR' = TRUE
            /\ passcodeEdit' = ""
            /\ Finish("ui", NoRet)
    /\ UNCHANGED <<mem, MINI_OVERLAY_VISIBLE, miniTimer, blockingVisible, db, clock,
                   op, loc, pre, fx, lim>>

\* :598-607
blocking_extend_done ==
    /\ pc["ui"] = "blocking_extend_done"
    /\ PASSCODE_ERROR' = FALSE
    /\ passcodeEdit' = ""
    /\ Goto("ui", "hide_load_remaining")
    /\ UNCHANGED <<mem, MINI_OVERLAY_VISIBLE, miniTimer, blockingVisible, db, clock,
                   op, loc, ret, pre, fx, lim>>

\* :623-624  ExitWindowsEx(EWX_SHUTDOWN, ..): the session's end is asked for
blocking_shutdown ==
    /\ pc["ui"] = "blocking_shutdown"
    /\ fx' = Append(fx, Effect("terminateSession", NoneV, 0))
    /\ Finish("ui", NoRet)
    /\ UNCHANGED <<mem, win, db, clock, op, loc, pre, lim>>

(***************************************************************************)
(* dialogs.rs:1199-1210  stats_dialog_proc, ID_RESET_TIMER                 *)
(***************************************************************************)
ID_RESET_TIMER ==
    \E entered \in Codes :
        /\ BeginCommand("ui", [NoOp EXCEPT !.name = "ID_RESET_TIMER",
                                           !.entered = entered], "tray_verify_passcode")
        /\ UNCHANGED <<mem, win, db, clock, loc, ret, fx, ticksLeft, overlap, outage, admin_chat_id>>

\* fault: the day's limit is added to the countdown
reset_store_added ==
    /\ pc["ui"] = "reset_store"
    /\ LET daily_limit_seconds ==
               as_i32(REMAINING_SECONDS
                        + get_daily_limit(Store, get_current_weekday(clock)) * 60)
       IN  /\ REMAINING_SECONDS' = daily_limit_seconds
           /\ loc' = [loc EXCEPT !["ui"].current = daily_limit_seconds]
    /\ Goto("ui", "reset_save")
    /\ UNCHANGED <<IS_PAUSED, PAUSE_START_TIMESTAMP, CURRENT_PAUSE_DURATION,
                   SESSION_ACTIVE_SECONDS, win, db, clock, op, ret, pre, fx, lim>>

\* :1201-1205
reset_store ==
    /\ pc["ui"] = "reset_store"
    /\ LET weekday == get_current_weekday(clock)
           daily_limit_minutes == get_daily_limit(Store, weekday)
           daily_limit_seconds == as_i32(daily_limit_minutes * 60)
       IN  /\ REMAINING_SECONDS' = daily_limit_seconds
           /\ loc' = [loc EXCEPT !["ui"].current = daily_limit_seconds]
    /\ Goto("ui", "reset_save")
    /\ UNCHANGED <<IS_PAUSED, PAUSE_START_TIMESTAMP, CURRENT_PAUSE_DURATION,
                   SESSION_ACTIVE_SECONDS, win, db, clock, op, ret, pre, fx, lim>>

\* fault: the reset is not persisted
reset_save_skipped ==
    /\ pc["ui"] = "reset_save"
    /\ fx' = Append(fx, Effect("refreshCountdownDisplay", NoneV, 0))
    /\ Finish("ui", NoRet)
    /\ UNCHANGED <<mem, win, db, clock, op, loc, pre, lim>>

\* :1206-1207
reset_save ==
    /\ pc["ui"] = "reset_save"
    /\ db' = Written(save_remaining_time(db, clock, loc["ui"].current))
    /\ fx' = Append(fx, Effect("refreshCountdownDisplay", NoneV, 0))
    /\ Finish("ui", NoRet)
    /\ UNCHANGED <<mem, win, clock, op, loc, pre, lim>>

(***************************************************************************)
(* telegram.rs:176-231  handle_command, and telegram.rs:233-345 the remote *)
(* commands.  A command comes from the chat of the admin (1) or from       *)
(* another chat (2).                                                       *)
(***************************************************************************)
Senders == {1, 2}

\* handle_command without the comparison of the sender with the admin
handle_command_any_sender(command) ==
    /\ BeginCommand("bot", command,
                    IF admin_chat_id # NoneV THEN command.name \o "_check" ELSE "done")
    /\ ret' = IF admin_chat_id # NoneV THEN ret
              ELSE [ret EXCEPT !["bot"] = [NoRet EXCEPT !.reply =
                       "No admin configured. Please set your chat ID in settings."]]
    /\ UNCHANGED <<mem, win, db, clock, loc, fx, ticksLeft, overlap, outage, admin_chat_id>>

\* a command arrives; :204-214 the authorization check, which looks at
\* nothing but the message and the bot's own admin_chat_id; :216-226 the
\* command is dispatched
handle_command(command) ==
    /\ BeginCommand("bot", command,
                    IF admin_chat_id # NoneV /\ command.sender = admin_chat_id.n
                    THEN command.name \o "_check" ELSE "done")
    /\ ret' = IF admin_chat_id # NoneV
              THEN IF command.sender # admin_chat_id.n
                   THEN [ret EXCEPT !["bot"] = [NoRet EXCEPT !.reply =
                            "Unauthorized. This bot is configured for a specific user."]]
                   ELSE ret
              ELSE [ret EXCEPT !["bot"] = [NoRet EXCEPT !.reply =
                       "No admin configured. Please set your chat ID in settings."]]
    /\ UNCHANGED <<mem, win, db, clock, loc, fx, ticksLeft, overlap, outage, admin_chat_id>>

\* Command::Status
cmd_status ==
    \E sender \in Senders :
        handle_command([NoOp EXCEPT !.name = "cmd_status", !.sender = sender])

\* :233-260  remaining time, paused or not, minutes of pause budget left
cmd_status_check ==
    /\ pc["bot"] = "cmd_status_check"
    /\ Finish("bot", [NoRet EXCEPT
                         !.reply = IF IS_PAUSED THEN "Screen Time Status: paused"
                                   ELSE "Screen Time Status: not paused",
                         !.seconds_remaining = REMAINING_SECONDS])
    /\ UNCHANGED <<mem, win, db, clock, op, loc, pre, fx, lim>>

\* Command::History
cmd_history ==
    \E sender \in Senders :
        handle_command([NoOp EXCEPT !.name = "cmd_history", !.sender = sender])

\* :324-345  the pause seconds used today and the pause log
cmd_history_check ==
    /\ pc["bot"] = "cmd_history_check"
    /\ Finish("bot", [NoRet EXCEPT
                         !.reply = IF get_pause_log_today(Store, clock) = <<>>
                                   THEN "No pause events today" ELSE "Pause log",
                         !.seconds_remaining = get_pause_used_today(Store, clock)])
    /\ UNCHANGED <<mem, win, db, clock, op, loc, pre, fx, lim>>

\* Command::Extend(mins); another chat asks for the most that is allowed
cmd_extend ==
    \E minutes \in {0, 1, 120, 121}, sender \in Senders :
        /\ IntV(sender) = admin_chat_id \/ minutes = 120
        /\ handle_command([NoOp EXCEPT !.name = "cmd_extend", !.minutes = minutes,
                                       !.sender = sender])

\* cmd_extend without the upper limit of 120 minutes
cmd_extend_check_no_maximum ==
    /\ pc["bot"] = "cmd_extend_check"
    /\ IF op["bot"].minutes <= 0
       THEN Finish("bot", [NoRet EXCEPT
                              !.reply = "Please specify a positive number of minutes"])
       ELSE Goto("bot", "extend_load") /\ UNCHANGED ret
    /\ UNCHANGED <<mem, win, db, clock, op, loc, pre, fx, lim>>

\* :283-290
cmd_extend_check ==
    /\ pc["bot"] = "cmd_extend_check"
    /\ IF op["bot"].minutes <= 0
       THEN Finish("bot", [NoRet EXCEPT
                              !.reply = "Please specify a positive number of minutes"])
       ELSE IF op["bot"].minutes > 120
       THEN Finish("bot", [NoRet EXCEPT !.reply = "Maximum extension is 120 minutes"])
       ELSE Goto("bot", "extend_load") /\ UNCHANGED ret
    /\ UNCHANGED <<mem, win, db, clock, op, loc, pre, fx, lim>>

\* :293-297
cmd_extend_reply ==
    /\ pc["bot"] = "cmd_extend_reply"
    /\ Finish("bot", [NoRet EXCEPT !.reply = "Extended",
                                   !.seconds_remaining = REMAINING_SECONDS])
    /\ UNCHANGED <<mem, win, db, clock, op, loc, pre, fx, lim>>

\* Command::Pause
cmd_pause ==
    \E sender \in Senders :
        handle_command([NoOp EXCEPT !.name = "cmd_pause", !.sender = sender])

\* :301-305
cmd_pause_check ==
    /\ pc["bot"] = "cmd_pause_check"
    /\ IF IS_PAUSED
       THEN Finish("bot", [NoRet EXCEPT !.reply = "Timer is already paused"])
       ELSE Goto("bot", "toggle_load_paused") /\ UNCHANGED ret
    /\ UNCHANGED <<mem, win, db, clock, op, loc, pre, fx, lim>>

\* Command::Resume
cmd_resume ==
    \E sender \in Senders :
        handle_command([NoOp EXCEPT !.name = "cmd_resume", !.sender = sender])

\* :313-317
cmd_resume_check ==
    /\ pc["bot"] = "cmd_resume_check"
    /\ IF ~IS_PAUSED
       THEN Finish("bot", [NoRet EXCEPT !.reply = "Timer is not paused"])
       ELSE Goto("bot", "toggle_load_paused") /\ UNCHANGED ret
    /\ UNCHANGED <<mem, win, db, clock, op, loc, pre, fx, lim>>

(***************************************************************************)
(* The runs that are explored.  Sequential runs (handlers one after the    *)
(* other) start from a wide choice of settings with one command and one    *)
(* second, or from fewer settings with more of both; overlapping runs let  *)
(* the two threads interleave.                                             *)
(***************************************************************************)
MaxOps == 2

MaxTicks == 3

ConcOps == 2

Sc(enabled, budget, max_duration, cooldown, min_active, warn1, warn2, limit, remaining, active, used, ended_ago, c) ==
    [enabled |-> enabled, budget |-> budget, max_duration |-> max_duration,
     cooldown |-> cooldown, min_active |-> min_active, warn1 |-> warn1,
     warn2 |-> warn2, limit |-> limit, limit_other |-> 2, remaining |-> remaining,
     active |-> active, used |-> used, ended_ago |-> ended_ago, clock |-> c,
     admin |-> IntV(1)]

\* every combination of what can_pause looks at, around its thresholds
WideScenarios ==
    { Sc(enabled, budget, 1, 1, 1, 1, 0, 1,
         remaining, active, used, ended_ago, MidClock) :
        enabled \in {0, 1}, budget \in {0, 1},
        remaining \in {IntV(59), IntV(60)}, active \in {IntV(59), IntV(60)},
        used \in {0, 59, 60}, ended_ago \in {0, 59, 60} }

\* what the process may find stored when it starts: nothing, the -1 of a
\* countdown never set, no time, a second, a minute; a day with no
\* allowance
StartScenarios ==
    { Sc(1, 1, 1, 1, 1, 1, 0, 1, remaining, IntV(60), 58, 61, MidClock) :
        remaining \in {NoneV, IntV(-1), IntV(0), IntV(1), IntV(61)} }
    \cup
    { Sc(1, 1, 1, 1, 1, 1, 0, 0, remaining, IntV(60), 58, 61, MidClock) :
        remaining \in {NoneV, IntV(2), IntV(61)} }

\* countdowns close to the warning thresholds, pauses that end by
\* themselves after 0, 1 or 2 seconds, both sides of a midnight
Scenarios ==
    { Sc(1, 1, 1, 1, 1, 1, 1, 1, IntV(61), IntV(60), used, 61, MidClock) :
        used \in {58, 59} }
    \cup
    { Sc(1, 1, 0, 1, 1, 1, 1, 1, remaining, IntV(60), 0, 61, MidClock) :
        remaining \in {IntV(62)} }
    \cup
    { Sc(1, 1, 1, 1, 0, 1, 0, 1, IntV(62), NoneV, IF ended_ago = 0 THEN 0 ELSE 58,
         ended_ago, EomClock) :
        ended_ago \in {0, 1} }

\* the bot runs with no admin chat id in its configuration
NoAdminScenarios ==
    { [Sc(1, 1, 1, 1, 1, 1, 0, 1, IntV(60), IntV(60), 0, 60, MidClock)
          EXCEPT !.admin = NoneV] }

ConcScenarios ==
    { Sc(1, 1, max_duration, 0, 0, 1, 0, 1, IntV(61), NoneV, 59, 0, MidClock) :
        max_duration \in {0, 1} }
    \cup
    { Sc(1, 1, 0, 0, 0, 1, 0, 1, IntV(61), NoneV, 58, 0, MidClock) }

Init ==
    \/ InitFrom(WideScenarios \cup NoAdminScenarios, 1, 1, FALSE)
    \/ InitFrom(StartScenarios, MaxOps, 1, FALSE)
    \/ InitFrom(Scenarios, MaxOps, MaxTicks, FALSE)

InitConc == InitFrom(ConcScenarios, ConcOps, 1, TRUE)

\* runs in which the store fails: one that starts with no time left, one in
\* which a pause is allowed and a second of the pause budget is left
OutageScenarios ==
    { Sc(1, 1, 1, 1, 1, 1, 0, 1, IntV(0), IntV(60), 58, 61, MidClock),
      Sc(1, 1, 1, 1, 1, 1, 1, 1, IntV(61), IntV(60), 59, 61, MidClock) }

InitOutage == InitFrom(OutageScenarios, MaxOps, MaxTicks, FALSE)

(***************************************************************************)
(* The next-state relation.                                                *)
(***************************************************************************)
TimerSteps ==
    \/ timer_load_paused \/ timer_inc_pause \/ timer_max_duration
    \/ timer_load_remaining \/ timer_store_remaining \/ timer_inc_active
    \/ timer_save_remaining \/ timer_save_active \/ timer_warnings
    \/ timer_block \/ timer_invalidate

PauseSteps(t) ==
    \/ toggle_load_paused(t)
    \/ can_pause_load_paused(t) \/ can_pause_enabled(t) \/ can_pause_remaining(t)
    \/ can_pause_budget(t) \/ can_pause_cooldown(t) \/ can_pause_active(t)
    \/ pause_store_start(t) \/ pause_store_duration(t) \/ pause_store_paused(t)
    \/ resume_load_duration(t) \/ resume_get_used(t) \/ resume_save_used(t)
    \/ resume_log_get(t) \/ resume_log_set(t) \/ resume_save_last_end(t)
    \/ resume_store_paused(t) \/ resume_store_start(t) \/ resume_store_duration(t)

ExtendSteps(t) == extend_load(t) \/ extend_store(t)

UiSteps ==
    \/ tray_verify_passcode \/ menu_load_paused \/ menu_budget
    \/ blocking_check_passcode \/ blocking_extend_done \/ blocking_shutdown
    \/ hide_load_remaining \/ hide_save_remaining \/ hide_show_mini
    \/ reset_store \/ reset_save

BotSteps ==
    \/ cmd_status_check \/ cmd_history_check
    \/ cmd_extend_check \/ cmd_extend_reply \/ cmd_pause_check \/ cmd_resume_check

Commands ==
    \/ IDM_PAUSE_TOGGLE \/ IDM_EXTEND \/ IDM_SHOW_BLOCKING \/ show_context_menu
    \/ ID_UNLOCK_BUTTON \/ ID_EXTEND \/ ID_SHUTDOWN_BUTTON \/ ID_RESET_TIMER
    \/ cmd_status \/ cmd_history \/ cmd_extend \/ cmd_pause \/ cmd_resume

Next ==
    \/ ClockTick
    \/ Restart
    \/ WM_TIMER
    \/ TimerSteps
    \/ UiSteps
    \/ BotSteps
    \/ Commands
    \/ \E t \in Threads : PauseSteps(t) \/ ExtendSteps(t) \/ Return(t)

\* the program on a store that may fail
NextOutage == Next \/ StoreFails \/ StoreRecovers

Spec == Init /\ [][Next]_vars

SpecConc == InitConc /\ [][Next]_vars

SpecOutage == InitOutage /\ [][NextOutage]_vars

(***************************************************************************)
(* The properties.  A handler that has returned stands at "done" with the  *)
(* shared state of its start in pre, so that its effect is a predicate on  *)
(* one state.                                                              *)
(***************************************************************************)
UiDone(name) == pc["ui"] = "done" /\ op["ui"].name = name

Tick == UiDone("WM_TIMER")

RunningTick == Tick /\ ~pre["ui"].IS_PAUSED /\ pre["ui"].REMAINING_SECONDS > 0

PausedTick == Tick /\ pre["ui"].IS_PAUSED

Fired(e) == SelectSeq(fx, LAMBDA x : x.e = e)

\* C1: a tick with time left and no pause takes one second off the
\* countdown, adds one second of active time and leaves the pause state
\* (paused flag, elapsed pause seconds, pause seconds used today) alone.
C1_RunningTick ==
    RunningTick =>
        /\ REMAINING_SECONDS = pre["ui"].REMAINING_SECONDS - 1
        /\ SESSION_ACTIVE_SECONDS = pre["ui"].SESSION_ACTIVE_SECONDS + 1
        /\ IS_PAUSED = pre["ui"].IS_PAUSED
        /\ CURRENT_PAUSE_DURATION = pre["ui"].CURRENT_PAUSE_DURATION
        /\ get_pause_used_today(db, clock) = get_pause_used_today(pre["ui"].db, clock)

C1_Witness ==
    /\ RunningTick
    /\ REMAINING_SECONDS = 60
    /\ SESSION_ACTIVE_SECONDS = 61

\* the first second at which a pause that has `used` seconds behind it today
\* is to end by itself, as the property of section 9 words it
PauseLimitAsWorded(d, c) ==
    LET config == get_pause_config(d)
    IN  Min(config.max_duration_minutes * 60,
            config.daily_budget_minutes * 60 - get_pause_used_today(d, c))

\* ... and with the budget that is left never below zero
PauseLimit(d, c) ==
    LET config == get_pause_config(d)
    IN  Min(config.max_duration_minutes * 60,
            Max(config.daily_budget_minutes * 60 - get_pause_used_today(d, c), 0))

\* what a paused tick does, given whether the pause is to end on it
PausedTickDoes(ends) ==
    LET elapsed == pre["ui"].CURRENT_PAUSE_DURATION + 1 IN
    /\ REMAINING_SECONDS = pre["ui"].REMAINING_SECONDS
    /\ SESSION_ACTIVE_SECONDS = pre["ui"].SESSION_ACTIVE_SECONDS
    /\ IS_PAUSED = ~ends
    /\ IF ends
       THEN get_pause_used_today(db, clock) =
                get_pause_used_today(pre["ui"].db, clock) + elapsed
       ELSE CURRENT_PAUSE_DURATION = elapsed /\ db = pre["ui"].db

\* C2, as amended: a paused tick leaves the countdown and the active time
\* alone and counts one more elapsed pause second; the pause ends by itself
\* on exactly the tick at which the elapsed seconds reach or pass
\* min(max_duration*60, max(0, budget*60 - used today)), which for a
\* max_duration of 0 is the pause's first tick.
C2_PausedTick ==
    PausedTick =>
        PausedTickDoes(pre["ui"].CURRENT_PAUSE_DURATION + 1 >= PauseLimit(pre["ui"].db, clock))

C2_Witness ==
    /\ PausedTick
    /\ ~IS_PAUSED
    /\ get_pause_config(db).max_duration_minutes = 0
    /\ pre["ui"].CURRENT_PAUSE_DURATION + 1 = 1

\* C2, as stated: the pause ends by itself on exactly the tick at which the
\* elapsed seconds equal min(max_duration*60, budget*60 - used today).
C2_AsStated ==
    PausedTick =>
        PausedTickDoes(pre["ui"].CURRENT_PAUSE_DURATION + 1
                           = PauseLimitAsWorded(pre["ui"].db, clock))

\* C3: a running tick raises the blocking screen exactly once when it takes
\* the countdown from 1 to 0 and not at all otherwise, so that n running
\* ticks from n end at 0 with one showBlocking; a tick with no time left
\* (countdown <= 0) neither decrements nor raises the screen.
C3_BlockOnce ==
    /\ RunningTick =>
          /\ REMAINING_SECONDS = pre["ui"].REMAINING_SECONDS - 1
          /\ Len(Fired("showBlocking")) = IF pre["ui"].REMAINING_SECONDS = 1 THEN 1 ELSE 0
          /\ REMAINING_SECONDS = 0 => blockingVisible
    /\ Tick /\ ~pre["ui"].IS_PAUSED /\ pre["ui"].REMAINING_SECONDS <= 0 =>
          /\ REMAINING_SECONDS = pre["ui"].REMAINING_SECONDS
          /\ Fired("showBlocking") = <<>>

C3_Witness ==
    /\ RunningTick
    /\ pre["ui"].REMAINING_SECONDS = 1
    /\ REMAINING_SECONDS = 0
    /\ Len(Fired("showBlocking")) = 1

\* the warnings a tick that leaves `time` seconds is to show
WarningsAt(d, time) ==
    LET Warning(n) ==
            LET w == get_warning_config(d, n)
            IN  IF time = w.minutes * 60
                THEN <<Effect("showWarning", w.message, 10)>> ELSE <<>>
    IN  Warning(1) \o Warning(2)

Answered(t) == pc[t] = "done" /\ ret[t].tag # "none"

Reason(r) == IF r.tag = "Err" THEN r.reason ELSE "Ok"

CheckOrder ==
    <<"Disabled", "TimeTooLow", "BudgetExhausted", "CooldownActive",
      "MinActiveTimeNotMet">>

\* whether the i-th check of can_pause fails in the state p a handler began in
Fails(i, p) ==
    LET config == get_pause_config(p.db) IN
    CASE i = 1 -> ~is_pause_enabled(p.db)
      [] i = 2 -> p.REMAINING_SECONDS < 60
      [] i = 3 -> parse_i32_or(get_setting(p.db, DateKey("pause_used", p.today)), 0)
                      >= config.daily_budget_minutes * 60
      [] i = 4 -> /\ get_last_pause_end(p.db) > 0
                  /\ p.now - get_last_pause_end(p.db) < config.cooldown_minutes * 60
      [] i = 5 -> p.SESSION_ACTIVE_SECONDS < config.min_active_time_minutes * 60

FirstFailure(p) ==
    IF \E i \in 1..5 : Fails(i, p)
    THEN CheckOrder[CHOOSE i \in 1..5 : Fails(i, p) /\ \A j \in 1..(i - 1) : ~Fails(j, p)]
    ELSE "Ok"

\* C5: asked while no pause is on, can_pause answers with the first of
\* Disabled, TimeTooLow, BudgetExhausted, CooldownActive, MinActiveTimeNotMet
\* whose check fails, and with Ok only when none fails.
C5_FirstFailureWins ==
    \A t \in Threads :
        Answered(t) /\ ~pre[t].IS_PAUSED => Reason(ret[t]) = FirstFailure(pre[t])

C5_Witness ==
    /\ Answered("ui")
    /\ ~pre["ui"].IS_PAUSED
    /\ ret["ui"].reason = "TimeTooLow"
    /\ \A i \in 2..5 : Fails(i, pre["ui"])

\* C6, as amended: with the pause feature enabled and less than 60 seconds
\* on the countdown, can_pause answers TimeTooLow whatever the budget used,
\* the cooldown and the active time are.
C6_TimeTooLow ==
    \A t \in Threads :
        Answered(t) /\ ~pre[t].IS_PAUSED /\ pre[t].REMAINING_SECONDS < 60
                    /\ is_pause_enabled(pre[t].db)
            => Reason(ret[t]) = "TimeTooLow"

C6_Witness ==
    /\ Answered("bot")
    /\ op["bot"].name = "cmd_pause"
    /\ pre["bot"].REMAINING_SECONDS = 59
    /\ ret["bot"].reason = "TimeTooLow"
    /\ Fails(3, pre["bot"]) /\ Fails(4, pre["bot"])

\* C6, as stated: with less than 60 seconds on the countdown can_pause
\* answers TimeTooLow whatever else holds, the feature switch included.
C6_AsStated ==
    \A t \in Threads :
        Answered(t) /\ ~pre[t].IS_PAUSED /\ pre[t].REMAINING_SECONDS < 60
            => Reason(ret[t]) = "TimeTooLow"

\* C7: MinActiveTimeNotMet carries min_active_time*60 - session_active, which
\* is positive, and the fifth check passes once session_active reaches
\* min_active_time*60; CooldownActive carries cooldown*60 - (now - last
\* pause end), which lies in 1..cooldown*60.
C7_Payload ==
    \A t \in Threads :
        Answered(t) /\ ~pre[t].IS_PAUSED =>
            LET config == get_pause_config(pre[t].db)
                seconds == ret[t].seconds_remaining
            IN  /\ Reason(ret[t]) = "MinActiveTimeNotMet" =>
                      /\ seconds = config.min_active_time_minutes * 60
                                      - pre[t].SESSION_ACTIVE_SECONDS
                      /\ seconds > 0
                /\ (\A i \in 1..4 : ~Fails(i, pre[t]))
                      /\ pre[t].SESSION_ACTIVE_SECONDS
                            >= config.min_active_time_minutes * 60
                      /\ op[t].name # "show_context_menu"
                      => ret[t] = [Ok(TRUE) EXCEPT !.reply = Reply(op[t].name, Ok(TRUE))]
                /\ Reason(ret[t]) = "CooldownActive" =>
                      /\ seconds = config.cooldown_minutes * 60
                                      - (pre[t].now - get_last_pause_end(pre[t].db))
                      /\ seconds \in 1..(config.cooldown_minutes * 60)

\* toggle_pause was called by the handler of t that has returned
Toggled(t) ==
    /\ Answered(t)
    /\ op[t].name \in {"IDM_PAUSE_TOGGLE", "cmd_pause", "cmd_resume"}

PauseRecord(d, c) ==
    <<get_pause_used_today(d, c), get_last_pause_end(d), pause_log_existing(d, c)>>

\* C8: toggle_pause resumes and returns Ok(false) when a pause is on;
\* otherwise it returns Ok(true) with the pause begun when can_pause finds
\* no failing check, and can_pause's reason with the paused flag, the
\* elapsed pause seconds, the pause seconds used today, the last pause end
\* and the pause log as they were when a check fails.
C8_Toggle ==
    \A t \in Threads :
        Toggled(t) =>
            IF pre[t].IS_PAUSED
            THEN ret[t].tag = "Ok" /\ ~ret[t].val /\ ~IS_PAUSED
            ELSE IF FirstFailure(pre[t]) = "Ok"
            THEN /\ ret[t].tag = "Ok" /\ ret[t].val
                 /\ IS_PAUSED
                 /\ CURRENT_PAUSE_DURATION = 0
                 /\ PAUSE_START_TIMESTAMP = pre[t].now
            ELSE /\ ret[t].tag = "Err" /\ ret[t].reason = FirstFailure(pre[t])
                 /\ IS_PAUSED = pre[t].IS_PAUSED
                 /\ CURRENT_PAUSE_DURATION = pre[t].CURRENT_PAUSE_DURATION
                 /\ PauseRecord(db, clock) = PauseRecord(pre[t].db, clock)

C8_Witness ==
    /\ Toggled("ui")
    /\ ret["ui"].tag = "Err"
    /\ ret["ui"].reason = "CooldownActive"
    /\ ~IS_PAUSED

\* C9: two toggle_pause calls, one of the tray menu and one of the remote
\* pause command, both begun with no pause on and every check of can_pause
\* passing, serialize: one of them pauses (Ok(true)) and the other resumes
\* (Ok(false)).
C9_TogglesSerialize ==
    /\ Toggled("ui") /\ Toggled("bot")
    /\ op["bot"].name = "cmd_pause"
    /\ \A t \in Threads : ~pre[t].IS_PAUSED /\ FirstFailure(pre[t]) = "Ok"
    => /\ \A t \in Threads : ret[t].tag = "Ok"
       /\ ret["ui"].val # ret["bot"].val

\* the handler of t that has returned ended a pause (a process that starts
\* again has no pause on, and resumed none)
Resumed(t) == pc[t] = "done" /\ op[t].name # "main" /\ pre[t].IS_PAUSED /\ ~IS_PAUSED

\* the elapsed seconds of the pause a handler ends: a tick counts its own
\* second before it ends the pause
ElapsedAtResume(t) ==
    IF op[t].name = "WM_TIMER" THEN pre[t].CURRENT_PAUSE_DURATION + 1
    ELSE pre[t].CURRENT_PAUSE_DURATION

\* C10: a resume, asked for or automatic, adds the elapsed seconds of the
\* pause to the stored seconds used today, appends one entry (time of day,
\* elapsed seconds) to the pause log, stores now as the last pause end,
\* zeroes the pause start and the elapsed seconds, clears the paused flag,
\* and leaves the countdown and the active time alone.
C10_Resume ==
    \A t \in Threads :
        Resumed(t) =>
            /\ get_pause_used_today(db, clock) =
                   get_pause_used_today(pre[t].db, clock) + ElapsedAtResume(t)
            /\ pause_log_existing(db, clock) =
                   Append(pause_log_existing(pre[t].db, clock),
                          [time |-> time_str(clock), duration |-> ElapsedAtResume(t)])
            /\ get_last_pause_end(db) = get_current_timestamp(clock)
            /\ PAUSE_START_TIMESTAMP = 0
            /\ CURRENT_PAUSE_DURATION = 0
            /\ REMAINING_SECONDS = pre[t].REMAINING_SECONDS
            /\ SESSION_ACTIVE_SECONDS = pre[t].SESSION_ACTIVE_SECONDS

C10_Witness ==
    /\ Resumed("ui")
    /\ op["ui"].name = "IDM_PAUSE_TOGGLE"
    /\ pre["ui"].CURRENT_PAUSE_DURATION = 1
    /\ get_pause_used_today(db, clock) = 59
    /\ Len(pause_log_existing(db, clock)) = 2

(***************************************************************************)
(* Entering a pause, extending, resetting.                                 *)
(***************************************************************************)
\* toggle_pause, called by the handler of t that has returned, began a pause
Paused(t) == Toggled(t) /\ ret[t].tag = "Ok" /\ ret[t].val

\* C11: entering a pause stores now as the pause start, zero as the elapsed
\* pause seconds and sets the paused flag; it writes nothing to the settings
\* table (pause seconds used today, pause log, last pause end, persisted
\* countdown and active time are as they were) and leaves the countdown and
\* the active time alone.
C11_PauseEntry ==
    \A t \in Threads :
        Paused(t) =>
            /\ PAUSE_START_TIMESTAMP = pre[t].now
            /\ CURRENT_PAUSE_DURATION = 0
            /\ IS_PAUSED
            /\ db = pre[t].db
            /\ REMAINING_SECONDS = pre[t].REMAINING_SECONDS
            /\ SESSION_ACTIVE_SECONDS = pre[t].SESSION_ACTIVE_SECONDS

C11_Witness ==
    /\ Paused("bot")
    /\ ~pre["bot"].IS_PAUSED
    /\ IS_PAUSED
    /\ PAUSE_START_TIMESTAMP = get_current_timestamp(clock)
    /\ get_pause_used_today(db, clock) = 58
    /\ get_last_pause_end(db) = get_current_timestamp(clock) - 61

\* the handler of t that has returned called extend_time: the passcode it
\* was given is the stored one, the remote command's minutes are in 1..120
Extends(t) ==
    /\ pc[t] = "done"
    /\ CASE op[t].name = "IDM_EXTEND" -> verify_passcode_for_quit(pre[t].db, op[t].entered)
         [] op[t].name = "ID_EXTEND" -> check_blocking_passcode(pre[t].db, op[t].entered)
         [] op[t].name = "cmd_extend" ->
                IntV(op[t].sender) = admin_chat_id /\ op[t].minutes \in 1..120
         [] OTHER -> FALSE

PauseFields == <<IS_PAUSED, PAUSE_START_TIMESTAMP, CURRENT_PAUSE_DURATION>>

PauseFieldsOf(p) == <<p.IS_PAUSED, p.PAUSE_START_TIMESTAMP, p.CURRENT_PAUSE_DURATION>>

\* C12: extend_time(minutes) leaves old + minutes*60 on the countdown when
\* old >= 0 and exactly minutes*60 when old is the sentinel -1; the result is
\* not capped (it may pass the day's limit), and neither a pause field nor
\* the pause record of the day nor the active time changes.
C12_ExtendTime ==
    \A t \in Threads :
        Extends(t) /\ pre[t].REMAINING_SECONDS >= -1 =>
            /\ REMAINING_SECONDS =
                  IF pre[t].REMAINING_SECONDS = -1 THEN op[t].minutes * 60
                  ELSE pre[t].REMAINING_SECONDS + op[t].minutes * 60
            /\ PauseFields = PauseFieldsOf(pre[t])
            /\ PauseRecord(db, clock) = PauseRecord(pre[t].db, clock)
            /\ SESSION_ACTIVE_SECONDS = pre[t].SESSION_ACTIVE_SECONDS

C12_Witness ==
    /\ Extends("ui")
    /\ op["ui"].name = "ID_EXTEND"
    /\ pre["ui"].REMAINING_SECONDS = -1
    /\ REMAINING_SECONDS = 900
    /\ REMAINING_SECONDS > get_daily_limit(db, get_current_weekday(clock)) * 60

(***************************************************************************)
(* Blocked and Active.                                                     *)
(***************************************************************************)
\* the state a handler began in was Blocked: no time left, the screen up
BlockedAt(p) == p.blockingVisible /\ p.REMAINING_SECONDS <= 0

\* the countdown runs: time is left and the one-second timer is set
CountdownRuns == REMAINING_SECONDS > 0 /\ miniTimer # "off"

\* C13: a handler that extends while Blocked, be it a blocking-screen extend
\* button, a tray extend or the remote extend command, leaves the program
\* Active: the blocking screen is hidden by exactly one hideBlocking and the
\* countdown runs again.
C13_ExtendUnblocks ==
    \A t \in Threads :
        Extends(t) /\ BlockedAt(pre[t]) =>
            /\ ~blockingVisible
            /\ Len(Fired("hideBlocking")) = 1
            /\ CountdownRuns

\* the reset button's handler has returned, the passcode before it accepted
Resets == UiDone("ID_RESET_TIMER") /\ verify_passcode_for_quit(pre["ui"].db, op["ui"].entered)

\* the day's limit in seconds, as the settings d have it
LimitSeconds(d) == get_daily_limit(d, get_current_weekday(clock)) * 60

\* countdown c and the table d are what a reset leaves
AfterReset(c, d) ==
    c = LimitSeconds(d) /\ load_remaining_time(d, clock) = IntV(LimitSeconds(d))

\* a reset leaves the day's limit in memory and in the table, whatever the
\* countdown was, so that a second reset right after it changes nothing
ResetIdempotent ==
    Resets =>
        /\ AfterReset(REMAINING_SECONDS, db)
        /\ LimitSeconds(db) = LimitSeconds(pre["ui"].db)
        /\ AfterReset(pre["ui"].REMAINING_SECONDS, pre["ui"].db) =>
               REMAINING_SECONDS = pre["ui"].REMAINING_SECONDS /\ db = pre["ui"].db

\* C14, as amended: extend_time(0) leaves a countdown >= 0 as it is and
\* turns the sentinel -1 into 0; two resets in succession on one date leave
\* the same countdown and the same persisted value as one.
C14_Idempotent ==
    /\ extended(REMAINING_SECONDS, 0) = IF REMAINING_SECONDS >= 0 THEN REMAINING_SECONDS ELSE 0
    /\ ResetIdempotent

C14_Witness ==
    /\ Resets
    /\ ticksLeft = MaxTicks
    /\ AfterReset(pre["ui"].REMAINING_SECONDS, pre["ui"].db)
    /\ pre["ui"].REMAINING_SECONDS = 60
    /\ REMAINING_SECONDS = 60

\* C14, as stated: extend_time(0) leaves the countdown as it is in every
\* state, the sentinel state included; two resets in succession leave what
\* one leaves.
C14_AsStated ==
    /\ extended(REMAINING_SECONDS, 0) = REMAINING_SECONDS
    /\ ResetIdempotent

(***************************************************************************)
(* Persistence and the start of the process.                               *)
(***************************************************************************)
\* main has run: at the first start, or (with a state before it) again
Started == UiDone("main")

Restarted == Started /\ pre["ui"] # NoPre

\* the blocking screen's unlock or extend handler has returned, the
\* passcode accepted
Unlocks == UiDone("ID_UNLOCK_BUTTON") /\ check_blocking_passcode(pre["ui"].db, op["ui"].entered)

\* the handler that has returned called save_remaining_time
Persists ==
    \/ Resets
    \/ Unlocks
    \/ Extends("ui") /\ op["ui"].name = "ID_EXTEND"
    \/ RunningTick /\ (pre["ui"].REMAINING_SECONDS - 1) % 30 = 0

\* C15: what a handler persists is the countdown it leaves in memory, and a
\* process that starts finds in the countdown the value persisted under
\* today's date; only with none persisted for today is the countdown the
\* weekday's limit in minutes times 60.
C15_RoundTrip ==
    /\ Persists => load_remaining_time(db, clock) = IntV(REMAINING_SECONDS)
    /\ Started =>
          LET stored == get_setting(db, DateKey("remaining_time", get_today_date(clock)))
          IN  REMAINING_SECONDS = IF stored.k = "int" THEN stored.n ELSE LimitSeconds(db)

C15_Witness ==
    /\ Restarted
    /\ pre["ui"].REMAINING_SECONDS = 900
    /\ load_remaining_time(pre["ui"].db, clock) = IntV(900)
    /\ REMAINING_SECONDS = 900
    /\ LimitSeconds(db) # 900

Abs(x) == IF x >= 0 THEN x ELSE -x

\* no midnight has passed since the run began: the date is still the one the
\* process first started on
SameDate == get_today_date(clock) \in {get_today_date(MidClock), get_today_date(EomClock)}

\* C16: a running tick that leaves a multiple of 30 on the countdown
\* persists the countdown and the active time, and a process that is ended
\* in any state and started again on the same date finds a countdown that
\* differs from the one in memory before by at most 29 seconds, also after
\* an extend from the tray or the remote command.
C16_CrashLoss ==
    /\ RunningTick /\ REMAINING_SECONDS % 30 = 0 =>
          /\ load_remaining_time(db, clock) = IntV(REMAINING_SECONDS)
          /\ get_session_active_time(db, clock) = SESSION_ACTIVE_SECONDS
    /\ Restarted /\ SameDate =>
          Abs(REMAINING_SECONDS - pre["ui"].REMAINING_SECONDS) <= 29

\* C17: when the process has started, it is Active (no blocking screen, the
\* countdown running) if the countdown loaded is > 0 and Blocked otherwise;
\* with a loaded countdown <= 0 the one effect of the start is showBlocking
\* with the configured message, issued with the tick timer not set, that is
\* before any tick is handled.
C17_StartState ==
    Started =>
        IF REMAINING_SECONDS > 0
        THEN ~blockingVisible /\ CountdownRuns /\ fx = <<>>
        ELSE /\ blockingVisible
             /\ miniTimer = "off"
             /\ fx = <<Effect("showBlocking", get_blocking_message(db), 0)>>

C17_Witness ==
    /\ Restarted
    /\ ~pre["ui"].blockingVisible
    /\ REMAINING_SECONDS = 0
    /\ blockingVisible
    /\ fx = <<Effect("showBlocking", TextV("time is up"), 0)>>

\* a handler of t has returned (the start of the process is none)
Handled(t) == pc[t] = "done" /\ op[t].name # "main"

\* the blocking screen went up only through a tick that took the countdown
\* to 0
ShownOnlyAtZero ==
    \A t \in Threads :
        Handled(t) /\ ~pre[t].blockingVisible /\ blockingVisible =>
            t = "ui" /\ RunningTick /\ REMAINING_SECONDS = 0

\* the blocking screen went down only through an extend or an unlock
HiddenOnlyByGate ==
    \A t \in Threads :
        Handled(t) /\ pre[t].blockingVisible /\ ~blockingVisible =>
            t = "ui" /\ (Extends("ui") \/ Unlocks)

\* C18: the blocking screen is shown by no operation but the tick that
\* brings the countdown to 0 (not by a tray command, a reset or a pause
\* toggle), is hidden by none but a successful extend or unlock, and is
\* never left showing by a successful extend.
C18_Transitions ==
    /\ ShownOnlyAtZero
    /\ HiddenOnlyByGate
    /\ \A t \in Threads : Extends(t) => ~blockingVisible

\* C19: an unlock with the right passcode leaves the countdown as it was and
\* takes the blocking screen down only when the countdown is positive:
\* after an unlock with a countdown of 0 the screen is still shown.
C19_UnlockKeepsBlock ==
    Unlocks /\ pre["ui"].REMAINING_SECONDS >= 0 =>
        /\ REMAINING_SECONDS = pre["ui"].REMAINING_SECONDS
        /\ ~blockingVisible => REMAINING_SECONDS > 0

(***************************************************************************)
(* The passcode gate of the blocking screen.                               *)
(***************************************************************************)
GateOps == {"ID_UNLOCK_BUTTON", "ID_EXTEND", "ID_SHUTDOWN_BUTTON"}

Gate == pc["ui"] = "done" /\ op["ui"].name \in GateOps

Refused == Gate /\ ~check_blocking_passcode(pre["ui"].db, op["ui"].entered)

Accepted == Gate /\ check_blocking_passcode(pre["ui"].db, op["ui"].entered)

MemOf(p) ==
    <<p.REMAINING_SECONDS, p.IS_PAUSED, p.PAUSE_START_TIMESTAMP,
      p.CURRENT_PAUSE_DURATION, p.SESSION_ACTIVE_SECONDS>>

\* C20: an unlock, extend or shutdown with a wrong passcode changes neither
\* the countdown, the pause fields, the active time, the settings table nor
\* which windows are shown and whether the countdown runs; it raises the
\* incorrect-passcode flag, empties the passcode field and has no other
\* effect.  No failure locks the gate: with the right passcode the
\* operation takes effect whether or not failures came before it.
C20_WrongPasscode ==
    /\ Refused =>
          /\ mem = MemOf(pre["ui"])
          /\ db = pre["ui"].db
          /\ blockingVisible = pre["ui"].blockingVisible
          /\ MINI_OVERLAY_VISIBLE = pre["ui"].MINI_OVERLAY_VISIBLE
          /\ miniTimer = pre["ui"].miniTimer
          /\ PASSCODE_ERROR
          /\ passcodeEdit = ""
          /\ fx = <<>>
    /\ Accepted =>
          CASE op["ui"].name = "ID_UNLOCK_BUTTON" -> ~blockingVisible
            [] op["ui"].name = "ID_EXTEND" ->
                  /\ ~blockingVisible
                  /\ REMAINING_SECONDS =
                        extended(pre["ui"].REMAINING_SECONDS, op["ui"].minutes)
            [] OTHER -> Len(Fired("terminateSession")) = 1

C20_Witness ==
    /\ Accepted
    /\ op["ui"].name = "ID_UNLOCK_BUTTON"
    /\ pre["ui"].PASSCODE_ERROR
    /\ pre["ui"].passcodeEdit = ""
    /\ ~blockingVisible

(***************************************************************************)
(* Who may do what: the passcode and the remote admin.                     *)
(***************************************************************************)
\* the operations of the local user that ask for the passcode
GatedOps == GateOps \cup {"IDM_EXTEND"}

\* the gated operation that has returned took effect: the countdown was
\* extended, the blocking screen taken down, the end of the session asked for
TookEffect ==
    /\ pc["ui"] = "done"
    /\ CASE op["ui"].name \in {"IDM_EXTEND", "ID_EXTEND"} ->
                REMAINING_SECONDS # pre["ui"].REMAINING_SECONDS
         [] op["ui"].name = "ID_UNLOCK_BUTTON" -> Fired("hideBlocking") # <<>>
         [] op["ui"].name = "ID_SHUTDOWN_BUTTON" -> Fired("terminateSession") # <<>>
         [] OTHER -> FALSE

\* C21: a gated operation (unlock, extend from the blocking screen, extend
\* from the tray menu, shutdown) takes effect only when the store can be
\* read and the code entered is the passcode it holds.
C21_GateEquality ==
    TookEffect => outage # "all" /\ TextV(op["ui"].entered) = get_passcode(db)

\* C22: a pause toggle of the local user takes the paused flag from false
\* to true only after the passcode was asked for and the code entered was
\* the stored one.
C22_PauseGated ==
    Paused("ui") /\ ~pre["ui"].IS_PAUSED /\ IS_PAUSED =>
        TextV(op["ui"].entered) = get_passcode(pre["ui"].db)

RemoteCommands == {"cmd_status", "cmd_extend", "cmd_pause", "cmd_resume", "cmd_history"}

Remote == pc["bot"] = "done" /\ op["bot"].name \in RemoteCommands

Authorized == IntV(op["bot"].sender) = admin_chat_id

\* C23: a remote command of a sender that is not the configured admin, or
\* one that arrives while no admin is configured, is answered with the fixed
\* rejection text of its case and changes nothing: countdown, pause fields,
\* active time, settings table and windows are as before it and no
\* notifier effect is issued.  A command of the admin is never answered
\* with a rejection text.
C23_RemoteAuthorization ==
    /\ Remote /\ ~Authorized =>
          /\ ret["bot"].reply =
                IF admin_chat_id = NoneV
                THEN "No admin configured. Please set your chat ID in settings."
                ELSE "Unauthorized. This bot is configured for a specific user."
          /\ mem = MemOf(pre["bot"])
          /\ db = pre["bot"].db
          /\ blockingVisible = pre["bot"].blockingVisible
          /\ MINI_OVERLAY_VISIBLE = pre["bot"].MINI_OVERLAY_VISIBLE
          /\ miniTimer = pre["bot"].miniTimer
          /\ fx = <<>>
    /\ Remote /\ Authorized =>
          ret["bot"].reply \notin
              {"No admin configured. Please set your chat ID in settings.",
               "Unauthorized. This bot is configured for a specific user."}

C23_Witness ==
    /\ Remote /\ ~Authorized
    /\ admin_chat_id # NoneV
    /\ op["bot"].name = "cmd_extend"
    /\ op["bot"].minutes = 120
    /\ ~pre["bot"].IS_PAUSED

(***************************************************************************)
(* The remote extend command                                               *)
(***************************************************************************)
RemoteExtend == Remote /\ Authorized /\ op["bot"].name = "cmd_extend"

\* the answer of cmd_extend to minutes it does not take
ExtendError(minutes) ==
    IF minutes <= 0 THEN "Please specify a positive number of minutes"
    ELSE "Maximum extension is 120 minutes"

ExtendMeetsTick ==
    /\ Extends("bot")
    /\ RunningTick
    /\ pre["ui"].REMAINING_SECONDS > 0
    /\ pre["ui"].REMAINING_SECONDS = pre["bot"].REMAINING_SECONDS

\* C25: when a remote extend of m minutes and one tick run at the same time
\* from a countdown old, the countdown ends at old + m*60 or at
\* old + m*60 - 1: neither store overwrites the other with a stale value.
C25_ExtendSerialized ==
    ExtendMeetsTick =>
        REMAINING_SECONDS \in
            { pre["bot"].REMAINING_SECONDS + op["bot"].minutes * 60,
              pre["bot"].REMAINING_SECONDS + op["bot"].minutes * 60 - 1 }

(***************************************************************************)
(* The store fails                                                         *)
(***************************************************************************)
\* C26: with the store failing, the engine goes on as with a working store:
\* after a pause has ended, what can_pause reads for its budget and
\* cooldown checks counts that pause (the seconds used today have grown by
\* its elapsed seconds, the last pause end is now), and the countdown is
\* as the pause left it.
C26_OutageKeepsEnforcing ==
    \A t \in Threads :
        Resumed(t) =>
            /\ get_pause_used_today(Store, clock) =
                   get_pause_used_today(pre[t].db, clock) + ElapsedAtResume(t)
            /\ get_last_pause_end(Store) = get_current_timestamp(clock)
            /\ REMAINING_SECONDS = pre[t].REMAINING_SECONDS

(***************************************************************************)
(* The sign of the countdown                                               *)
(***************************************************************************)
\* no handler is under way
Steady == \A t \in Threads : pc[t] = "idle"

BudgetSeconds(d) == get_pause_config(d).daily_budget_minutes * 60

\* the handler of t that has returned was neither a start of the program
\* nor an extend or a reset that took effect
KeepsCountdown(t) ==
    /\ pc[t] = "done"
    /\ op[t].name # "main"
    /\ ~Extends(t)
    /\ ~(t = "ui" /\ Resets)

\* C28: with the pause settings unchanged, the seconds of pause used today
\* change only when a pause ends, and a pause that ends leaves them at most
\* at the daily budget; and the countdown is not consumed by a pause: the
\* handler that starts the pause, every handler that runs while paused and
\* the one that ends the pause leave the countdown as they found it (an
\* extend or a reset aside).
C28_PauseBudget ==
    \A t \in Threads :
        /\ Resumed(t) =>
              /\ get_pause_used_today(db, clock) <= BudgetSeconds(db)
              /\ get_pause_used_today(db, clock) =
                     get_pause_used_today(pre[t].db, clock) + ElapsedAtResume(t)
        /\ pc[t] = "done" /\ op[t].name # "main" /\ ~Resumed(t) =>
              get_pause_used_today(db, clock) = get_pause_used_today(pre[t].db, clock)
        /\ KeepsCountdown(t) /\ (pre[t].IS_PAUSED \/ IS_PAUSED) =>
              REMAINING_SECONDS = pre[t].REMAINING_SECONDS

C28_Witness ==
    /\ Resumed("ui")
    /\ op["ui"].name = "WM_TIMER"
    /\ get_pause_used_today(pre["ui"].db, clock) = 59
    /\ get_pause_used_today(db, clock) = BudgetSeconds(db)
    /\ REMAINING_SECONDS = 61

(***************************************************************************)
(* The cooldown and the minimum active time                                *)
(***************************************************************************)
\* the handler of t that has returned took the program from not paused to
\* paused
PauseTransition(t) == pc[t] = "done" /\ op[t].name # "main" /\ ~pre[t].IS_PAUSED /\ IS_PAUSED

\* C29: a pause that ends records the timestamp of its end, and no pause
\* begins at a timestamp now with now - t < cooldown_minutes*60, t > 0 being
\* the recorded end of the last pause, nor while the active seconds of the
\* session are fewer than min_active_time_minutes*60.  Timestamps are those
\* of get_current_timestamp.
C29_Cooldown ==
    \A t \in Threads :
        /\ Resumed(t) => get_last_pause_end(db) = get_current_timestamp(clock)
        /\ PauseTransition(t) =>
              LET config == get_pause_config(pre[t].db)
                  last_pause_end == get_last_pause_end(pre[t].db)
              IN  /\ last_pause_end > 0 =>
                         pre[t].now - last_pause_end >= config.cooldown_minutes * 60
                  /\ pre[t].SESSION_ACTIVE_SECONDS >= config.min_active_time_minutes * 60

C29_Witness ==
    /\ PauseTransition("bot")
    /\ get_pause_config(db).cooldown_minutes = 1
    /\ get_pause_config(db).min_active_time_minutes = 1
    /\ pre["bot"].now - get_last_pause_end(db) = 60
    /\ SESSION_ACTIVE_SECONDS = 60

(***************************************************************************)
(* Midnight                                                                *)
(***************************************************************************)
\* the table holds a value under the key of a date that is not today: the
\* date has changed since the program wrote it
Rolled == \E key \in DOMAIN db : key[2] \notin {NoDate, get_today_date(clock)}

\* no command was given and the program was not started again since the
\* run began
OnlyTicks == opsLeft = MaxOps

\* C30: when the date changes while the program runs, the countdown in
\* memory is not set to the limit of the new day: each tick of the new
\* date takes one second off the countdown it finds, and with nothing but
\* ticks since the start the countdown is the start value less the seconds
\* that have passed, midnight among them.  The seconds of pause used and
\* the pause log read under the new date are 0 and empty, whatever the old
\* date's are, until a pause ends on the new date.
C30_DateRollover ==
    /\ RunningTick /\ Rolled /\ pre["ui"].REMAINING_SECONDS > 0 =>
          REMAINING_SECONDS = pre["ui"].REMAINING_SECONDS - 1
    /\ Rolled /\ OnlyTicks /\ Steady /\ miniTimer # "due" =>
          REMAINING_SECONDS =
              load_remaining_time(db, EomClock).n - (MaxTicks - ticksLeft)
    /\ Rolled /\ OnlyTicks =>
          /\ get_pause_used_today(db, clock) = 0
          /\ get_pause_log_today(db, clock) = <<>>

C30_Witness ==
    /\ Rolled /\ OnlyTicks /\ Steady /\ miniTimer # "due"
    /\ get_pause_used_today(db, EomClock) = 58
    /\ Len(get_pause_log_today(db, EomClock)) = 1
    /\ get_pause_used_today(db, clock) = 0
    /\ get_pause_log_today(db, clock) = <<>>
    /\ load_remaining_time(db, EomClock) = IntV(62)
    /\ load_remaining_time(db, clock) = IntV(60)
    /\ REMAINING_SECONDS = 60
    /\ REMAINING_SECONDS # get_daily_limit(db, get_current_weekday(clock)) * 60

(***************************************************************************)
(* The reset                                                               *)
(***************************************************************************)
\* C31: a reset leaves the limit of the current weekday, in seconds, on the
\* countdown and the same value under today's key of the table, asks for
\* one refresh of the display, and changes neither a pause field nor the
\* pause record of the day nor the active time.
C31_ResetTimer ==
    Resets =>
        /\ REMAINING_SECONDS = get_daily_limit(pre["ui"].db, get_current_weekday(clock)) * 60
        /\ load_remaining_time(db, clock) = IntV(REMAINING_SECONDS)
        /\ PauseFields = PauseFieldsOf(pre["ui"])
        /\ PauseRecord(db, clock) = PauseRecord(pre["ui"].db, clock)
        /\ SESSION_ACTIVE_SECONDS = pre["ui"].SESSION_ACTIVE_SECONDS
        /\ Len(Fired("refreshCountdownDisplay")) = 1

C31_Witness ==
    /\ Resets
    /\ pre["ui"].IS_PAUSED /\ IS_PAUSED
    /\ pre["ui"].REMAINING_SECONDS = 61
    /\ load_remaining_time(pre["ui"].db, clock) = IntV(61)
    /\ REMAINING_SECONDS = 60
    /\ load_remaining_time(db, clock) = IntV(60)

(***************************************************************************)
(* Settings that are missing or cannot be parsed                           *)
(***************************************************************************)
\* the table with a text that is no number under every key it has and
\* under today's keys
Unparsable ==
    [key \in DOMAIN db \cup {DateKey(name, get_today_date(clock)) :
                                name \in {"pause_used", "session_active"}}
        |-> TextV("abc")]

DefaultConfig ==
    [daily_budget_minutes |-> 45, max_duration_minutes |-> 20,
     cooldown_minutes |-> 15, min_active_time_minutes |-> 10]

\* the integer settings read from the table d are the defaults
IntegerDefaults(d) ==
    /\ \A weekday \in 0..6 : get_daily_limit(d, weekday) = 120
    /\ \A warning_num \in 1..2 : get_warning_config(d, warning_num).minutes = 5
    /\ get_pause_config(d) = DefaultConfig
    /\ get_pause_used_today(d, clock) = 0
    /\ get_last_pause_end(d) = 0
    /\ get_session_active_time(d, clock) = 0

\* the default of every setting, as a table; the settings of a day are
\* those of the date today
Defaults(today) ==
    [key \in {Key(WEEKDAY_KEYS[i]) : i \in 1..7}
              \cup {Key("warning1_minutes"), Key("warning2_minutes"),
                    Key("pause_enabled"), Key("pause_daily_budget"),
                    Key("pause_max_duration"), Key("pause_cooldown"),
                    Key("pause_min_active_time"), Key("pause_last_end_timestamp"),
                    DateKey("pause_used", today), DateKey("session_active", today)}
        |-> CASE key[1] \in {WEEKDAY_KEYS[i] : i \in 1..7} -> IntV(120)
              [] key[1] \in {"warning1_minutes", "warning2_minutes"} -> IntV(5)
              [] key[1] = "pause_enabled" -> IntV(1)
              [] key[1] = "pause_daily_budget" -> IntV(45)
              [] key[1] = "pause_max_duration" -> IntV(20)
              [] key[1] = "pause_cooldown" -> IntV(15)
              [] key[1] = "pause_min_active_time" -> IntV(10)
              [] OTHER -> IntV(0)]

\* the table d with the default stored under every setting it lacks
Completed(d, today) ==
    [key \in DOMAIN d \cup DOMAIN Defaults(today)
        |-> IF key \in DOMAIN d THEN d[key] ELSE Defaults(today)[key]]

\* a handler that asked can_pause while no pause was on has returned
Asked(t) == Answered(t) /\ ~pre[t].IS_PAUSED

\* what the reads of the handler of t found: nothing while every read fails
Seen(t) == IF outage = "all" THEN EmptyDb ELSE pre[t].db

\* C32, as amended: a setting that is absent, or an integer setting that is
\* no number, gives the default (limit 120, warning minutes 5, budget 45,
\* max duration 20, cooldown 15, min active time 10, used today 0, last
\* pause end 0, active seconds 0) and pause_enabled gives enabled when it
\* is absent but disabled when it holds anything other than "1"; no
\* operation fails for it: can_pause answers as it would with the default
\* stored under every setting that its reads did not find.
C32_Defaults ==
    /\ Steady =>
          /\ IntegerDefaults(EmptyDb)
          /\ IntegerDefaults(Unparsable)
          /\ is_pause_enabled(EmptyDb)
          /\ ~is_pause_enabled(Unparsable)
    /\ \A t \in Threads :
          Asked(t) =>
              Reason(ret[t]) =
                  FirstFailure([pre[t] EXCEPT !.db = Completed(Seen(t), pre[t].today)])

C32_Witness ==
    /\ Asked("ui")
    /\ DateKey("pause_used", pre["ui"].today) \notin DOMAIN pre["ui"].db
    /\ get_pause_config(pre["ui"].db).daily_budget_minutes = 1
    /\ Reason(ret["ui"]) = "Ok"
    /\ IS_PAUSED

\* C32, as stated: pause_enabled too falls back to enabled when what is
\* stored cannot be parsed
C32_AsStated ==
    Steady =>
        /\ IntegerDefaults(EmptyDb)
        /\ IntegerDefaults(Unparsable)
        /\ is_pause_enabled(EmptyDb)
        /\ is_pause_enabled(Unparsable)

(***************************************************************************)
(* The one-second timer                                                    *)
(***************************************************************************)
\* time is left, no pause is on and the blocking display is down
Counting == REMAINING_SECONDS > 0 /\ ~IS_PAUSED /\ ~blockingVisible

\* C33: whenever time is left, no pause is on and the blocking display is
\* not shown, the one-second timer of the countdown is armed.
C33_TimerArmed == Steady /\ Counting => miniTimer # "off"

(***************************************************************************)
(* A tick and a remote command at the same time                            *)
(***************************************************************************)
\* a tick and a remote resume have both found the same pause on, and both
\* have returned with no pause on
ResumedTwice ==
    /\ Resumed("ui") /\ op["ui"].name = "WM_TIMER"
    /\ Resumed("bot") /\ op["bot"].name = "cmd_resume"
    /\ pre["ui"].PAUSE_START_TIMESTAMP = pre["bot"].PAUSE_START_TIMESTAMP
    /\ PauseRecord(pre["ui"].db, clock) = PauseRecord(pre["bot"].db, clock)

\* C34: when the automatic resume of a tick and a remote resume run at the
\* same time on one pause, the seconds used today grow by the elapsed
\* seconds of that pause once and the pause log gains one entry.
C34_ChargedOnce ==
    ResumedTwice =>
        /\ get_pause_used_today(db, clock) - get_pause_used_today(pre["bot"].db, clock)
               \in {ElapsedAtResume("ui"), ElapsedAtResume("bot")}
        /\ Len(pause_log_existing(db, clock)) =
               Len(pause_log_existing(pre["bot"].db, clock)) + 1

\* the toggle_pause called by the remote command name has returned val
RemoteToggle(name, val) ==
    /\ Toggled("bot") /\ op["bot"].name = name
    /\ ret["bot"].tag = "Ok" /\ ret["bot"].val = val

\* C35: the remote resume never begins a pause and the remote pause never
\* ends one, whatever ticks and local toggles run at the same time.
C35_RemoteOneWay ==
    /\ ~RemoteToggle("cmd_resume", TRUE)
    /\ ~RemoteToggle("cmd_pause", FALSE)

(***************************************************************************)
(* The end of a pause                                                      *)
(***************************************************************************)
\* C36: while a pause is on the one-second timer that ends it is armed, so
\* that the pause ends under continuing ticks, and the elapsed seconds of
\* the pause are at most one above the smaller of the maximum duration and
\* the pause budget that is left.
C36_PauseEnds ==
    Steady /\ IS_PAUSED =>
        /\ miniTimer # "off"
        /\ CURRENT_PAUSE_DURATION <= Max(0, get_max_pause_duration(db, clock)) + 1

(***************************************************************************)
(* The pause record of a day                                               *)
(***************************************************************************)
RECURSIVE Charged(_)
\* the seconds that the entries of a pause log add up to
Charged(log) == IF log = <<>> THEN 0 ELSE Head(log).duration + Charged(Tail(log))

\* the handler of t has returned on the day it began
SameDay(t) == pc[t] = "done" /\ op[t].name # "main" /\ pre[t].today = get_today_date(clock)

\* a handler that ends a pause has added one entry to the pause log of the
\* day, any other has left the log as it was
OneEntryPerResume ==
    \A t \in Threads :
        SameDay(t) =>
            Len(pause_log_existing(db, clock)) =
                Len(pause_log_existing(pre[t].db, clock))
                    + (IF Resumed(t) THEN 1 ELSE 0)

\* C37: between handlers the pause seconds used today are the sum of the
\* durations of the entries in today's pause log.
C37_UsedIsLogged ==
    Steady => get_pause_used_today(db, clock) = Charged(pause_log_existing(db, clock))

\* C38: while a pause is on, the countdown has at least a minute left.
C38_PausedHasMinute == IS_PAUSED => REMAINING_SECONDS >= 60

(***************************************************************************)
(* The first start on a new date                                           *)
(***************************************************************************)
\* the process ran over midnight with nothing but ticks and has now been
\* started again, on the new date
StartedOnNewDate == Restarted /\ Rolled /\ opsLeft = MaxOps - 1

\* C39: the first start on a new date, after a run over midnight, loads the
\* limit of the new weekday in seconds: nothing that comes from the
\* countdown of the day before is found under the new date.
C39_FreshDay == StartedOnNewDate => REMAINING_SECONDS = LimitSeconds(db)

(***************************************************************************)
(* The timestamp of the cooldown                                           *)
(***************************************************************************)
\* C40: the timestamp grows with the local time: the next second has a
\* larger timestamp than this one, so that the last pause end never lies
\* after now and a CooldownActive answer never carries more seconds than
\* the cooldown has.
C40_Monotonic ==
    /\ get_current_timestamp(clock) < get_current_timestamp(NextSecond(clock))
    /\ get_last_pause_end(db) <= get_current_timestamp(clock)
    /\ \A t \in Threads :
          Answered(t) /\ Reason(ret[t]) = "CooldownActive" =>
              ret[t].seconds_remaining
                  <= get_pause_config(pre[t].db).cooldown_minutes * 60

==========================================================================
